---- MODULE Spec2Model ----
(***************************************************************************)
(* Sentiment engine of the chatbot (src/src/sentiment.py): the three base  *)
(* scorers, the comparative adjuster of SentimentEngine and the            *)
(* conversation aggregator; and the trend analyzer (src/src/analyzer.py).  *)
(*                                                                         *)
(* The scores of the engine are fixed-point hundredths: 0.05 is 5, -0.7 is *)
(* -70, 1.0 is 100.  The trend analyzer computes with rounded floats.      *)
(* Texts are strings; the regular expressions and the substring tests of   *)
(* the adjuster are evaluated character by character on them.              *)
(***************************************************************************)
EXTENDS Integers, Sequences, FiniteSets, TLC

VARIABLES analyzer_type, text, raw, result, prev_result, pc,
          messages, summary,
          sentiment_scores, sentiment_labels, trend_analysis, volatility, insights,
          sentiment_score, emotion_result, emotion_data, emotion_analysis,
          conversation_context, sent, response,
          conversation, added,
          threaded, conversations, heap, requests

engineVars == <<analyzer_type, text, raw, result, prev_result, pc>>
convVars == <<messages, summary>>
trendVars == <<sentiment_scores, sentiment_labels, trend_analysis, volatility, insights>>
dialogueVars == <<sentiment_score, emotion_result, emotion_data, emotion_analysis,
                  conversation_context, sent, response, conversation, added,
                  threaded, conversations, heap, requests>>
vars == <<analyzer_type, text, raw, result, prev_result, pc, messages, summary,
          sentiment_scores, sentiment_labels, trend_analysis, volatility, insights,
          sentiment_score, emotion_result, emotion_data, emotion_analysis,
          conversation_context, sent, response, conversation, added,
          threaded, conversations, heap, requests>>

----------------------------------------------------------------------------
(* Bounds of the model.                                                    *)

\* a text is at most MaxPhrases fragments joined by single spaces
MaxPhrases == 2
\* a conversation handed to analyze_conversation has at most MaxMsgs messages
MaxMsgs == 3
\* bits of the significand of a float (53 in CPython; 9 rounds the tenths the
\* same way, the binary expansion of 1/5 having period 4)
MantissaBits == 9
\* analyze_trend is handed at most MaxScores scores
MaxScores == 4
\* analyze_conversation_emotions is handed at most MaxEmotionMsgs messages
MaxEmotionMsgs == 3
\* generate_response is called at most MaxCalls times between two resets
MaxCalls == 11
\* add_message is called at most MaxAdded times on a conversation
MaxAdded == 3
\* the chat service receives at most MaxRequests requests
MaxRequests == 2

----------------------------------------------------------------------------
(* Strings: str.lower(), str.strip(), `in`, and the regex primitives.      *)

UpperAlpha == "ABCDEFGHIJKLMNOPQRSTUVWXYZ"
LowerAlpha == "abcdefghijklmnopqrstuvwxyz"
Digits == "0123456789"

CharAt(s, i) == SubSeq(s, i, i)
Chars(s) == {CharAt(s, i) : i \in 1..Len(s)}

\* Python: lit in s
Contains(s, lit) ==
    \E i \in 1..(Len(s) - Len(lit) + 1) : SubSeq(s, i, i + Len(lit) - 1) = lit

\* str.lower() of one character
LowerMap ==
    [c \in Chars(UpperAlpha) |->
        CharAt(LowerAlpha, CHOOSE i \in 1..26 : CharAt(UpperAlpha, i) = c)]
LowerChar(c) == IF c \in DOMAIN LowerMap THEN LowerMap[c] ELSE c

RECURSIVE Lower(_)
\* Python: s.lower()
Lower(s) ==
    IF s = "" THEN "" ELSE LowerChar(CharAt(s, 1)) \o Lower(SubSeq(s, 2, Len(s)))

\* regex \s
IsSpace(c) == c \in {" ", "\t", "\n", "\r"}

\* regex \w
WordChars == Chars(LowerAlpha) \cup Chars(UpperAlpha) \cup Chars(Digits) \cup {"_"}
IsWordChar(c) == c \in WordChars

\* Python: not text or not text.strip()
IsBlank(s) == \A i \in 1..Len(s) : IsSpace(CharAt(s, i))

\* regex \b between the characters i-1 and i
WordBoundary(s, i) ==
    LET before == i - 1 \in 1..Len(s) /\ IsWordChar(CharAt(s, i - 1))
        after == i \in 1..Len(s) /\ IsWordChar(CharAt(s, i))
    IN  before # after

\* the literal lit occurs in s at position i
At(s, i, lit) ==
    i + Len(lit) - 1 <= Len(s) /\ SubSeq(s, i, i + Len(lit) - 1) = lit

\* regex \s+ from position j: the positions it can stop at
AfterSpaces(s, j) ==
    {k \in (j + 1)..(Len(s) + 1) : \A m \in j..(k - 1) : IsSpace(CharAt(s, m))}

RECURSIVE MatchLits(_, _, _)
\* an alternative: literals separated by \s+ ; the positions after a match at i
MatchLits(s, i, lits) ==
    IF lits = <<>> THEN {i}
    ELSE IF ~At(s, i, Head(lits)) THEN {}
    ELSE LET j == i + Len(Head(lits))
         IN  IF Tail(lits) = <<>> THEN {j}
             ELSE UNION {MatchLits(s, k, Tail(lits)) : k \in AfterSpaces(s, j)}

\* pattern items: \b, a group of alternatives, \s+, .*?
B == [t |-> "b", a |-> {}]
WS == [t |-> "ws", a |-> {}]
ANY == [t |-> "any", a |-> {}]
Alt(words) == [t |-> "alt", a |-> {<<w>> : w \in words}]
AltSeqs(seqs) == [t |-> "alt", a |-> seqs]

RECURSIVE MatchFrom(_, _, _)
\* the items match s starting at position i
MatchFrom(s, i, items) ==
    IF items = <<>> THEN TRUE
    ELSE LET it == Head(items)
             rest == Tail(items)
         IN  CASE it.t = "b" -> WordBoundary(s, i) /\ MatchFrom(s, i, rest)
               [] it.t = "alt" ->
                    \E alt \in it.a : \E j \in MatchLits(s, i, alt) : MatchFrom(s, j, rest)
               [] it.t = "ws" -> \E j \in AfterSpaces(s, i) : MatchFrom(s, j, rest)
               [] it.t = "any" ->
                    \E j \in i..(Len(s) + 1) :
                        /\ \A m \in i..(j - 1) : CharAt(s, m) # "\n"
                        /\ MatchFrom(s, j, rest)

\* pattern.search(s) of a pattern compiled with re.IGNORECASE, on s in lower
\* case (the patterns are written in lower case)
Search(pattern, s) == \E i \in 1..(Len(s) + 1) : MatchFrom(s, i, pattern)

----------------------------------------------------------------------------
(* The texts that are analysed.                                            *)

\* the fragments the analysed texts are made of
Fragments ==
    {"", "hello", "Terrible", "rubbish", "garbage", "don't talk", "didn't find",
     "it", "interesting", "not good", "than before", "better than before",
     "used to be better", "better than this one", "last time was better"}

RECURSIVE JoinPhrases(_)
JoinPhrases(fs) ==
    IF fs = <<>> THEN ""
    ELSE IF Len(fs) = 1 THEN fs[1]
    ELSE fs[1] \o " " \o JoinPhrases(Tail(fs))

Texts == {JoinPhrases(fs) : fs \in UNION {[1..n -> Fragments] : n \in 0..MaxPhrases}}

\* the texts of the messages of a conversation
ConvTexts == {"hello", "not good"}

AllTexts == Texts \cup ConvTexts \cup {""}

----------------------------------------------------------------------------
(* SentimentEngine.__init__: the two pattern tables, in source order.      *)

Good5 == {"better", "good", "great", "excellent", "superior", "improved"}
Good4 == {"better", "good", "great", "excellent"}
NotWords == {"not", "isn't", "aren't", "wasn't", "weren't"}
AsGood == {"good", "great", "excellent", "nice", "well"}
Earlier == {"before", "previously", "earlier", "last"}

negative_comparative_patterns == <<
    \* "better than this/that/current/now/this one"
    <<B, Alt(Good5), WS, Alt({"than"}), WS,
      AltSeqs({<<"this">>, <<"that">>, <<"current">>, <<"now">>, <<"today">>,
               <<"this", "one">>, <<"that", "one">>})>>,
    \* "better than it/they is/are now"
    <<B, Alt(Good5), WS, Alt({"than"}), WS, Alt({"it", "they", "we", "you"}), WS,
      Alt({"is", "are", "was", "were", "now"})>>,
    \* "last/previous experience/time was better than"
    <<B, Alt({"last", "previous", "earlier", "before"}), WS,
      Alt({"experience", "time", "one", "service", "product"}), WS,
      Alt({"was", "were"}), WS, Alt(Good4), WS, Alt({"than"})>>,
    \* "previous/last time/experience was better"
    <<B, Alt({"previous", "last", "earlier", "before"}), WS,
      Alt({"time", "experience"}), WS, Alt({"was"}), WS, Alt({"better"})>>,
    \* "not as good as before/previous/last"
    <<B, Alt(NotWords), WS, Alt({"as", "so"}), WS, Alt(AsGood), WS, Alt({"as"}), WS,
      Alt({"before", "previously", "earlier", "last", "it", "they"})>>,
    \* "this/that/it is not as good"
    <<B, Alt({"this", "that", "it", "they"}), WS, Alt({"is", "are", "was", "were"}), WS,
      Alt({"not"}), WS, Alt({"as", "so"}), WS, Alt(AsGood)>>,
    \* "worse than before"
    <<B, Alt({"worse", "worsened", "declined", "deteriorated"}), WS, Alt({"than"}), WS,
      Alt(Earlier)>>,
    \* "used to be better"
    <<B, AltSeqs({<<"used", "to", "be">>}), WS, Alt({"better", "good", "great"})>>,
    \* "didn't/don't find... interesting/good/great"
    <<B, AltSeqs({<<"didn't">>, <<"don't">>, <<"doesn't">>, <<"didnt">>, <<"dont">>,
                  <<"doesnt">>, <<"did", "not">>, <<"do", "not">>, <<"does", "not">>}),
      WS, Alt({"find"}), ANY,
      Alt({"interesting", "good", "great", "excellent", "nice", "enjoyable", "engaging"})>>,
    \* "not interesting/not good/not great"
    <<B, Alt(NotWords), WS,
      Alt({"interesting", "good", "great", "excellent", "nice", "enjoyable", "engaging",
           "worthwhile"})>>,
    \* negative phrases like "rubbish", "nonsense", "stupid"
    <<B, Alt({"rubbish", "nonsense", "stupid", "idiotic", "ridiculous", "terrible",
              "awful", "horrible", "disgusting", "pathetic"})>>,
    \* "don't talk rubbish/nonsense"
    <<B, AltSeqs({<<"don't">>, <<"do", "not">>}), WS, Alt({"talk"}), WS,
      Alt({"rubbish", "nonsense", "garbage", "trash", "crap"})>> >>

positive_comparative_patterns == <<
    <<B, Alt({"better", "good", "great", "excellent", "improved"}), WS, Alt({"than"}), WS,
      Alt(Earlier)>>,
    <<B, Alt({"improved", "improving", "better"}), WS, Alt({"than", "from"}), WS,
      Alt(Earlier)>> >>

\* the indexes of the negative patterns that match s, the loop of line 284
NegativeMatches(s) ==
    LET low == Lower(s)
    IN  {k \in DOMAIN negative_comparative_patterns :
            Search(negative_comparative_patterns[k], low)}

\* the indexes of the positive patterns that match s, the loop of line 320
PositiveMatches(s) ==
    LET low == Lower(s)
    IN  {k \in DOMAIN positive_comparative_patterns :
            Search(positive_comparative_patterns[k], low)}

\* self.negative_patterns and self.positive_patterns: the compiled patterns,
\* as the matches they find in each text that is analysed
negative_patterns == [t \in AllTexts |-> NegativeMatches(t)]
positive_patterns == [t \in AllTexts |-> PositiveMatches(t)]

\* the word lists of the substring tests of lines 291, 294 and 296
VeryNegativePhrases ==
    {"rubbish", "nonsense", "garbage", "trash", "crap", "stupid", "idiotic"}
DidntFindPhrases == {"didn't find", "don't find", "not find", "didnt find", "dont find"}
PositiveAdjectives == {"interesting", "good", "great", "enjoyable", "engaging"}

ContainsAny(s, phrases) == \E phrase \in phrases : Contains(s, phrase)

----------------------------------------------------------------------------
(* The base scorers.                                                       *)

AnalyzerTypes == {"vader", "textblob", "transformers"}

Abs(x) == IF x < 0 THEN -x ELSE x
Min(a, b) == IF a < b THEN a ELSE b
Max(a, b) == IF a > b THEN a ELSE b

\* max(-1.0, min(1.0, x))
Clamp(x) == Max(-100, Min(100, x))

VADER_get_label(score) ==
    IF score >= 5 THEN "Positive" ELSE IF score <= -5 THEN "Negative" ELSE "Neutral"

TextBlob_get_label(score) ==
    IF score > 10 THEN "Positive" ELSE IF score < -10 THEN "Negative" ELSE "Neutral"

Transformers_get_label(score) ==
    IF score > 50 THEN "Positive" ELSE IF score < -50 THEN "Negative" ELSE "Neutral"

\* self.analyzer.get_label(score) of the engine's active analyzer
get_label(type, score) ==
    CASE type = "vader" -> VADER_get_label(score)
      [] type = "textblob" -> TextBlob_get_label(score)
      [] type = "transformers" -> Transformers_get_label(score)

\* A result dictionary: the keys the engine reads or writes.  compound is the
\* empty set when the key is absent; adjusted is the key adjusted_for_comparison.
Result(score, label, confidence, compound) ==
    [score |-> score, label |-> label, confidence |-> confidence,
     compound |-> compound, adjusted |-> FALSE]

\* the dictionary of analyze_text's except branch
NeutralDefault == Result(0, "Neutral", 0, {})

\* What the library behind the scorer answers for a text: the compound score of
\* polarity_scores, the polarity of TextBlob, the top label and its probability
\* of the sst-2 pipeline; or it raises.  NoCall: the library is not asked.
NoCall == [fails |-> FALSE, label |-> "none", score |-> 0]
Raises == [fails |-> TRUE, label |-> "none", score |-> 0]
LexiconScores == {-100, -30, -10, -5, 0, 5, 10, 30, 100}
PipelineScores == {60, 100}
RawOutputs(type) ==
    IF type = "transformers"
    THEN {[fails |-> FALSE, label |-> l, score |-> s] :
              l \in {"POSITIVE", "NEGATIVE"}, s \in PipelineScores} \cup {Raises}
    ELSE {[fails |-> FALSE, label |-> "none", score |-> s] : s \in LexiconScores}
             \cup {Raises}

\* analyze() returns [raised, r]: raised when the exception leaves analyze()
Returned(r) == [raised |-> FALSE, r |-> r]
Raised == [raised |-> TRUE, r |-> NeutralDefault]

VADER_analyze(s, out) ==
    IF IsBlank(s) THEN Returned(Result(0, "Neutral", 0, {0}))
    ELSE IF out.fails THEN Raised
    ELSE Returned(Result(out.score, VADER_get_label(out.score), Abs(out.score),
                         {out.score}))

TextBlob_analyze(s, out) ==
    IF IsBlank(s) THEN Returned(Result(0, "Neutral", 0, {}))
    ELSE IF out.fails THEN Raised
    ELSE Returned(Result(out.score, TextBlob_get_label(out.score), Abs(out.score), {}))

Transformers_analyze(s, out) ==
    IF IsBlank(s) THEN Returned(Result(0, "NEUTRAL", 0, {}))
    ELSE IF out.fails THEN Returned(Result(0, "Neutral", 0, {}))
    ELSE IF out.label = "POSITIVE"
         THEN Returned(Result(out.score, "Positive", out.score, {}))
    ELSE IF out.label = "NEGATIVE"
         THEN Returned(Result(-out.score, "Negative", out.score, {}))
    ELSE Returned(Result(0, "Neutral", out.score, {}))

\* self.analyzer.analyze(text)
analyze(type, s, out) ==
    CASE type = "vader" -> VADER_analyze(s, out)
      [] type = "textblob" -> TextBlob_analyze(s, out)
      [] type = "transformers" -> Transformers_analyze(s, out)

----------------------------------------------------------------------------
(* SentimentEngine._detect_comparative_sentiment and analyze_text.         *)

\* negative_adjusted_score without the sign flip of a positive base score
negative_adjusted_score_noflip(text_lower, original_score) ==
    IF ContainsAny(text_lower, VeryNegativePhrases) THEN -70
    ELSE IF ContainsAny(text_lower, DidntFindPhrases)
         THEN (IF ContainsAny(text_lower, PositiveAdjectives) THEN -60 ELSE -40)
    ELSE original_score - 40

\* lines 288-305: the adjusted score of the negative branch, before the clamp
negative_adjusted_score(text_lower, original_score) ==
    IF ContainsAny(text_lower, VeryNegativePhrases) THEN -70
    ELSE IF ContainsAny(text_lower, DidntFindPhrases)
         THEN (IF ContainsAny(text_lower, PositiveAdjectives) THEN -60 ELSE -40)
    ELSE IF original_score > 0 THEN -Abs(original_score) - 40
    ELSE original_score - 40

\* positive_adjusted_score without the sign flip of a negative base score
positive_adjusted_score_noflip(original_score) == original_score + 20

\* lines 323-328: the adjusted score of the positive branch, before the clamp
positive_adjusted_score(original_score) ==
    IF original_score < 0 THEN Abs(original_score) + 20 ELSE original_score + 20

\* write_adjusted that forgets to set adjusted_for_comparison
write_adjusted_unflagged(type, base_result, adjusted_score) ==
    LET clamped == Clamp(adjusted_score)
    IN  [base_result EXCEPT !.score = clamped,
                            !.compound = {clamped},
                            !.label = get_label(type, clamped),
                            !.confidence = Abs(clamped)]

\* write_adjusted without the clamp to [-1.0, 1.0]
write_adjusted_unclamped(type, base_result, adjusted_score) ==
    [base_result EXCEPT !.score = adjusted_score,
                        !.compound = {adjusted_score},
                        !.label = get_label(type, adjusted_score),
                        !.confidence = Abs(adjusted_score),
                        !.adjusted = TRUE]

\* lines 308-314 and 330-335: clamp, then rewrite the dictionary in place
write_adjusted(type, base_result, adjusted_score) ==
    LET clamped == Clamp(adjusted_score)
    IN  [base_result EXCEPT !.score = clamped,
                            !.compound = {clamped},
                            !.label = get_label(type, clamped),
                            !.confidence = Abs(clamped),
                            !.adjusted = TRUE]

\* the body of the first loop, run for the first negative pattern that matches
negative_adjustment(type, s, base_result) ==
    write_adjusted(type, base_result,
                   negative_adjusted_score(Lower(s), base_result.score))

\* the body of the second loop, run for the first positive pattern that matches
positive_adjustment(type, base_result) ==
    write_adjusted(type, base_result, positive_adjusted_score(base_result.score))

\* detect_comparative_sentiment whose first loop does not return: the positive
\* patterns are evaluated on the result of the negative adjustment
detect_without_return(type, s, base_result) ==
    LET after_negative ==
            IF negative_patterns[s] # {} THEN negative_adjustment(type, s, base_result)
            ELSE base_result
    IN  IF positive_patterns[s] # {} THEN positive_adjustment(type, after_negative)
        ELSE after_negative

\* each loop returns from inside its first matching iteration
detect_comparative_sentiment(type, s, base_result) ==
    IF negative_patterns[s] # {} THEN negative_adjustment(type, s, base_result)
    ELSE IF positive_patterns[s] # {} THEN positive_adjustment(type, base_result)
    ELSE base_result

analyze_text(type, s, out) ==
    LET base == analyze(type, s, out)
    IN  IF base.raised THEN NeutralDefault
        ELSE detect_comparative_sentiment(type, s, base.r)

----------------------------------------------------------------------------
(* SentimentEngine.analyze_conversation and _generate_reasoning.           *)

RECURSIVE Sum(_)
Sum(seq) == IF seq = <<>> THEN 0 ELSE Head(seq) + Sum(Tail(seq))

\* list.count(x)
Count(seq, x) == Cardinality({i \in DOMAIN seq : seq[i] = x})

\* overall_label with the Negative majority rule requiring a lead of two, as the
\* Positive one does
overall_label_symmetric(scores, labels) ==
    LET positive_count == Count(labels, "Positive")
        negative_count == Count(labels, "Negative")
        strong_negative_count == Cardinality({i \in DOMAIN scores : scores[i] < -30})
        strong_positive_count == Cardinality({i \in DOMAIN scores : scores[i] > 30})
    IN  IF negative_count > positive_count
           /\ (negative_count - positive_count >= 2 \/ strong_negative_count > 0)
        THEN "Negative"
        ELSE IF positive_count > negative_count /\ positive_count - negative_count >= 2
        THEN "Positive"
        ELSE IF strong_negative_count > 0 /\ negative_count >= positive_count
        THEN "Negative"
        ELSE IF strong_positive_count > 0 /\ positive_count > negative_count
        THEN "Positive"
        ELSE IF Sum(scores) < -10 * Len(scores) THEN "Negative"
        ELSE IF Sum(scores) > 10 * Len(scores) THEN "Positive"
        ELSE "Neutral"

\* overall_label decided by the average score alone
overall_label_by_average(scores, labels) ==
    IF Sum(scores) < -10 * Len(scores) THEN "Negative"
    ELSE IF Sum(scores) > 10 * Len(scores) THEN "Positive"
    ELSE "Neutral"

\* lines 437-450; avg_score = sum(scores) / len(scores) is compared as a fraction
overall_label(scores, labels) ==
    LET positive_count == Count(labels, "Positive")
        negative_count == Count(labels, "Negative")
        strong_negative_count == Cardinality({i \in DOMAIN scores : scores[i] < -30})
        strong_positive_count == Cardinality({i \in DOMAIN scores : scores[i] > 30})
    IN  IF negative_count > positive_count
           /\ (negative_count - positive_count >= 1 \/ strong_negative_count > 0)
        THEN "Negative"
        ELSE IF positive_count > negative_count /\ positive_count - negative_count >= 2
        THEN "Positive"
        ELSE IF strong_negative_count > 0 /\ negative_count >= positive_count
        THEN "Negative"
        ELSE IF strong_positive_count > 0 /\ positive_count > negative_count
        THEN "Positive"
        ELSE IF Sum(scores) < -10 * Len(scores) THEN "Negative"
        ELSE IF Sum(scores) > 10 * Len(scores) THEN "Positive"
        ELSE "Neutral"

\* the template _generate_reasoning picks, without its numbers
generate_reasoning(label_counts, overall) ==
    LET positive_count == label_counts["Positive"]
        negative_count == label_counts["Negative"]
    IN  IF overall = "Negative"
        THEN (IF negative_count > positive_count
              THEN "Generally negative conversation"
              ELSE IF negative_count = positive_count
              THEN "Mixed conversation with negative tone"
              ELSE "Conversation with negative overall tone")
        ELSE IF overall = "Positive"
        THEN (IF positive_count > negative_count
              THEN "Generally positive conversation"
              ELSE IF positive_count = negative_count
              THEN "Mixed conversation with positive tone"
              ELSE "Conversation with positive overall tone")
        ELSE "Neutral conversation with balanced sentiment"

NoCounts == [l \in {"Positive", "Negative", "Neutral"} |-> 0]

\* the dictionary of the two early returns: no label_distribution, scores, labels
EmptySummary(reasoning) ==
    [overall_sentiment |-> "Neutral", average_score |-> [num |-> 0, den |-> 1],
     total_messages |-> 0, has_distribution |-> FALSE, label_distribution |-> NoCounts,
     reasoning |-> reasoning, scores |-> <<>>, labels |-> <<>>]

\* A message is a dict with a 'text' key or a str (is_text), or anything else;
\* out is what the scorer's library answers for its text.
RECURSIVE analyzed_messages(_, _)
\* lines 389-397: the results of the messages that are analysed, in order
analyzed_messages(type, msgs) ==
    IF msgs = <<>> THEN <<>>
    ELSE LET msg == Head(msgs)
         IN  IF msg.is_text
             THEN <<analyze_text(type, msg.text, msg.out)>>
                      \o analyzed_messages(type, Tail(msgs))
             ELSE analyzed_messages(type, Tail(msgs))

\* analyze_conversation without the early return of lines 378-384: an empty
\* list falls through to the "no valid messages" return
analyze_conversation_unguarded(type, msgs) ==
    LET results == analyzed_messages(type, msgs)
        scores == [i \in DOMAIN results |-> results[i].score]
        labels == [i \in DOMAIN results |-> results[i].label]
        label_counts == [l \in {"Positive", "Negative", "Neutral"} |->
                            Count(labels, l)]
        overall == overall_label(scores, labels)
    IN  IF scores = <<>> THEN EmptySummary("No valid messages to analyze")
        ELSE [overall_sentiment |-> overall,
              average_score |-> [num |-> Sum(scores), den |-> Len(scores)],
              total_messages |-> Len(labels),
              has_distribution |-> TRUE,
              label_distribution |-> label_counts,
              reasoning |-> generate_reasoning(label_counts, overall),
              scores |-> scores,
              labels |-> labels]

analyze_conversation(type, msgs) ==
    IF msgs = <<>> THEN EmptySummary("No messages to analyze")
    ELSE LET results == analyzed_messages(type, msgs)
             scores == [i \in DOMAIN results |-> results[i].score]
             labels == [i \in DOMAIN results |-> results[i].label]
             label_counts == [l \in {"Positive", "Negative", "Neutral"} |->
                                 Count(labels, l)]
             overall == overall_label(scores, labels)
         IN  IF scores = <<>> THEN EmptySummary("No valid messages to analyze")
             ELSE [overall_sentiment |-> overall,
                   average_score |-> [num |-> Sum(scores), den |-> Len(scores)],
                   total_messages |-> Len(labels),
                   has_distribution |-> TRUE,
                   label_distribution |-> label_counts,
                   reasoning |-> generate_reasoning(label_counts, overall),
                   scores |-> scores,
                   labels |-> labels]

----------------------------------------------------------------------------
(* Python floats, as TrendAnalyzer computes with them: binary floating      *)
(* point, every operation rounded to the nearest value, ties to even.  A    *)
(* float is m * 2^e with m odd (or 0 = 0 * 2^0) and fewer than              *)
(* 2^MantissaBits in magnitude; the exponent is not bounded (the scores are *)
(* in [-1, 1] and nothing overflows or underflows).                         *)

RECURSIVE BitLen(_)
\* int.bit_length()
BitLen(n) == IF n = 0 THEN 0 ELSE 1 + BitLen(n \div 2)

Sign(x) == IF x < 0 THEN -1 ELSE 1

RECURSIVE Canonical(_, _)
\* the one representation of m * 2^e
Canonical(m, e) ==
    IF m = 0 THEN [m |-> 0, e |-> 0]
    ELSE IF m % 2 = 0 THEN Canonical(m \div 2, e + 1)
    ELSE [m |-> m, e |-> e]

\* sign * m * 2^e (m >= 0; sticky: plus a non-zero part below the last bit
\* of m) rounded to MantissaBits bits, to nearest, ties to even
RoundFloat(sign, m, e, sticky) ==
    LET k == BitLen(m) - MantissaBits
    IN  IF k <= 0 THEN Canonical(sign * m, e)
        ELSE LET q == m \div (2 ^ k)
                 r == m % (2 ^ k)
                 half == 2 ^ (k - 1)
                 up == r > half \/ (r = half /\ (sticky \/ q % 2 = 1))
             IN  Canonical(sign * (IF up THEN q + 1 ELSE q), e + k)

Zero == [m |-> 0, e |-> 0]

\* the exponent of the leading bit
Top(a) == a.e + BitLen(Abs(a.m))

FNeg(a) == [m |-> -a.m, e |-> a.e]

\* a + b
FAdd(a, b) ==
    IF a.m = 0 THEN b
    ELSE IF b.m = 0 THEN a
    ELSE IF Top(a) - Top(b) >= MantissaBits + 2 THEN a
    ELSE IF Top(b) - Top(a) >= MantissaBits + 2 THEN b
    ELSE LET e == Min(a.e, b.e)
             sum == a.m * 2 ^ (a.e - e) + b.m * 2 ^ (b.e - e)
         IN  RoundFloat(Sign(sum), Abs(sum), e, FALSE)

\* a - b
FSub(a, b) == FAdd(a, FNeg(b))

\* a * b
FMul(a, b) ==
    LET product == a.m * b.m
    IN  RoundFloat(Sign(product), Abs(product), a.e + b.e, FALSE)

\* a / b, b not zero
FDiv(a, b) ==
    IF a.m = 0 THEN Zero
    ELSE LET k == MantissaBits + 3 + BitLen(Abs(b.m)) - BitLen(Abs(a.m))
             n == Abs(a.m) * 2 ^ k
             q == n \div Abs(b.m)
         IN  RoundFloat(Sign(a.m) * Sign(b.m), q, a.e - b.e - k, n % Abs(b.m) # 0)

RECURSIVE ISqrt(_)
\* the integer part of the square root
ISqrt(n) ==
    IF n < 2 THEN n
    ELSE LET s == 2 * ISqrt(n \div 4)
         IN  IF (s + 1) * (s + 1) <= n THEN s + 1 ELSE s

\* a ** 0.5, a not negative
FSqrt(a) ==
    IF a.m = 0 THEN Zero
    ELSE LET s0 == Max(0, 2 * MantissaBits + 4 - BitLen(a.m))
             s == IF (a.e - s0) % 2 = 0 THEN s0 ELSE s0 + 1
             n == a.m * 2 ^ s
             r == ISqrt(n)
         IN  RoundFloat(1, r, (a.e - s) \div 2, r * r # n)

\* a < b and a > b: the sign of the difference
FLess(a, b) == FSub(a, b).m < 0
FGreater(a, b) == FSub(a, b).m > 0

\* abs(a)
FAbs(a) == [m |-> Abs(a.m), e |-> a.e]

\* float(n) of an int n
FromInt(n) == RoundFloat(Sign(n), Abs(n), 0, FALSE)

\* the float of a decimal literal with two decimals, given in hundredths:
\* F(30) is the float 0.3
F(h) == FDiv(FromInt(h), FromInt(100))

RECURSIVE FSumFrom(_, _)
FSumFrom(total, xs) ==
    IF xs = <<>> THEN total ELSE FSumFrom(FAdd(total, Head(xs)), Tail(xs))

\* sum(xs): left to right, starting from 0
FSum(xs) == FSumFrom(Zero, xs)

----------------------------------------------------------------------------
(* TrendAnalyzer (src/src/analyzer.py).  Scores are floats; a result is the *)
(* dictionary analyze_trend returns, keys being the keys it has.            *)

\* sum(xs) / len(xs)
Mean(xs) == FDiv(FSum(xs), FromInt(Len(xs)))

\* _determine_trend comparing the averages without the threshold
determine_trend_no_threshold(first_avg, second_avg) ==
    IF FGreater(second_avg, first_avg) THEN "improving"
    ELSE IF FGreater(first_avg, second_avg) THEN "declining"
    ELSE "stable"

\* _determine_trend
determine_trend(first_avg, second_avg) ==
    LET threshold == F(10)
    IN  IF FGreater(FSub(second_avg, first_avg), threshold) THEN "improving"
        ELSE IF FGreater(FSub(first_avg, second_avg), threshold) THEN "declining"
        ELSE "stable"

\* the template _generate_trend_description fills, without its numbers
generate_trend_description(trend, first_avg, second_avg) ==
    IF trend = "improving"
    THEN (IF FLess(first_avg, F(-10))
          THEN "Started negative -> Shifted positive"
          ELSE "Became increasingly positive")
    ELSE IF trend = "declining"
    THEN (IF FLess(second_avg, F(-10))
          THEN "Started positive/neutral -> Shifted negative"
          ELSE "Became less positive")
    ELSE "Remained relatively stable"

\* _calculate_progression dividing each running sum by len(scores)
calculate_progression_whole(scores, labels) ==
    [i \in 1..Min(Len(scores), Len(labels)) |->
        [message_index |-> i,
         score |-> scores[i],
         label |-> labels[i],
         cumulative_avg |-> FDiv(FSum(SubSeq(scores, 1, i)), FromInt(Len(scores)))]]

\* _calculate_progression; i is the 1-based position, enumerate's i + 1
calculate_progression(scores, labels) ==
    [i \in 1..Min(Len(scores), Len(labels)) |->
        [message_index |-> i,
         score |-> scores[i],
         label |-> labels[i],
         cumulative_avg |-> FDiv(FSum(SubSeq(scores, 1, i)), FromInt(i))]]

\* moments_at with the two checks in the other order
moments_at_extreme_first(scores, labels, i) ==
    LET change == FAbs(FSub(scores[i], scores[i - 1]))
        shift == IF FGreater(change, F(30))
                 THEN <<[message_index |-> i,
                         type |-> "significant_shift",
                         direction |-> IF FGreater(scores[i], scores[i - 1])
                                       THEN "positive" ELSE "negative",
                         magnitude |-> change,
                         from_score |-> scores[i - 1],
                         to_score |-> scores[i],
                         from_label |-> labels[i - 1],
                         to_label |-> labels[i]]>>
                 ELSE <<>>
        extreme == IF FGreater(FAbs(scores[i]), F(70))
                   THEN <<[message_index |-> i,
                           type |-> "extreme_sentiment",
                           sentiment |-> labels[i],
                           score |-> scores[i]]>>
                   ELSE <<>>
    IN  extreme \o shift

\* the records of one iteration of the loop of _identify_key_moments, for the
\* 1-based position i >= 2 (range(1, len(scores)) is 0-based)
moments_at(scores, labels, i) ==
    LET change == FAbs(FSub(scores[i], scores[i - 1]))
        shift == IF FGreater(change, F(30))
                 THEN <<[message_index |-> i,
                         type |-> "significant_shift",
                         direction |-> IF FGreater(scores[i], scores[i - 1])
                                       THEN "positive" ELSE "negative",
                         magnitude |-> change,
                         from_score |-> scores[i - 1],
                         to_score |-> scores[i],
                         from_label |-> labels[i - 1],
                         to_label |-> labels[i]]>>
                 ELSE <<>>
        extreme == IF FGreater(FAbs(scores[i]), F(70))
                   THEN <<[message_index |-> i,
                           type |-> "extreme_sentiment",
                           sentiment |-> labels[i],
                           score |-> scores[i]]>>
                   ELSE <<>>
    IN  shift \o extreme

RECURSIVE key_moments_from(_, _, _)
key_moments_from(scores, labels, i) ==
    IF i > Len(scores) THEN <<>>
    ELSE moments_at(scores, labels, i) \o key_moments_from(scores, labels, i + 1)

\* _identify_key_moments
identify_key_moments(scores, labels) ==
    IF Len(scores) < 2 THEN <<>> ELSE key_moments_from(scores, labels, 2)

\* the squared deviations (x - mean) ** 2 for x in scores
squared_deviations(scores, mean) ==
    [i \in DOMAIN scores |->
        FMul(FSub(scores[i], mean), FSub(scores[i], mean))]

\* _calculate_volatility
calculate_volatility(scores) ==
    IF Len(scores) < 2 THEN Zero
    ELSE LET mean == FDiv(FSum(scores), FromInt(Len(scores)))
             variance == FDiv(FSum(squared_deviations(scores, mean)),
                              FromInt(Len(scores)))
         IN  FSqrt(variance)

\* the keys of the two dictionaries analyze_trend returns
InsufficientKeys ==
    {"trend", "description", "first_half_avg", "second_half_avg", "progression"}
TrendKeys == InsufficientKeys \cup {"key_moments", "volatility"}

\* A trend dictionary.  key_moments and volatility are read only when they are
\* among keys.
TrendResult(keys, trend, description, first_half_avg, second_half_avg, progression, key_moments, vol) ==
    [keys |-> keys, trend |-> trend, description |-> description,
     first_half_avg |-> first_half_avg, second_half_avg |-> second_half_avg,
     progression |-> progression, key_moments |-> key_moments,
     volatility |-> vol]

\* analyze_trend whose guard is only `not sentiment_scores`
analyze_trend_unguarded(scores, labels) ==
    IF Len(scores) < 1
    THEN TrendResult(InsufficientKeys, "insufficient_data",
                     "Not enough messages to analyze trend", Zero, Zero, <<>>,
                     <<>>, Zero)
    ELSE LET mid_point == Len(scores) \div 2
             first_half == SubSeq(scores, 1, mid_point)
             second_half == SubSeq(scores, mid_point + 1, Len(scores))
             first_half_avg == IF first_half # <<>> THEN Mean(first_half) ELSE Zero
             second_half_avg == IF second_half # <<>> THEN Mean(second_half) ELSE Zero
             trend == determine_trend(first_half_avg, second_half_avg)
         IN  TrendResult(TrendKeys, trend,
                         generate_trend_description(trend, first_half_avg,
                                                    second_half_avg),
                         first_half_avg, second_half_avg,
                         calculate_progression(scores, labels),
                         identify_key_moments(scores, labels),
                         calculate_volatility(scores))

\* analyze_trend
analyze_trend(scores, labels) ==
    IF Len(scores) < 2
    THEN TrendResult(InsufficientKeys, "insufficient_data",
                     "Not enough messages to analyze trend", Zero, Zero, <<>>,
                     <<>>, Zero)
    ELSE LET mid_point == Len(scores) \div 2
             first_half == SubSeq(scores, 1, mid_point)
             second_half == SubSeq(scores, mid_point + 1, Len(scores))
             first_half_avg == IF first_half # <<>> THEN Mean(first_half) ELSE Zero
             second_half_avg == IF second_half # <<>> THEN Mean(second_half) ELSE Zero
             trend == determine_trend(first_half_avg, second_half_avg)
         IN  TrendResult(TrendKeys, trend,
                         generate_trend_description(trend, first_half_avg,
                                                    second_half_avg),
                         first_half_avg, second_half_avg,
                         calculate_progression(scores, labels),
                         identify_key_moments(scores, labels),
                         calculate_volatility(scores))

IsShift(moment) == moment.type = "significant_shift"

\* summarize_insights counting every key moment as a shift
summarize_insights_all_moments(analysis, overall_sentiment) ==
    LET trend_insight ==
            IF analysis.trend = "improving"
            THEN "Conversation mood improved over time"
            ELSE IF analysis.trend = "declining"
            THEN "Conversation mood declined over time"
            ELSE "Sentiment remained relatively consistent"
        key_moments ==
            IF "key_moments" \in analysis.keys THEN analysis.key_moments ELSE <<>>
        shift_insight ==
            IF key_moments # <<>>
            THEN <<"Detected " \o ToString(Len(key_moments))
                       \o " significant sentiment shift(s)">>
            ELSE <<>>
        dist == overall_sentiment.label_distribution
        total == dist["Positive"] + dist["Negative"] + dist["Neutral"]
        distribution_insight ==
            IF ~overall_sentiment.has_distribution THEN <<>>
            ELSE IF dist["Positive"] > dist["Negative"]
            THEN <<"Predominantly positive messages (" \o ToString(dist["Positive"])
                       \o "/" \o ToString(total) \o ")">>
            ELSE IF dist["Negative"] > dist["Positive"]
            THEN <<"Predominantly negative messages (" \o ToString(dist["Negative"])
                       \o "/" \o ToString(total) \o ")">>
            ELSE <<"Balanced mix of positive and negative messages">>
        vol ==
            IF "volatility" \in analysis.keys THEN analysis.volatility ELSE Zero
        volatility_insight ==
            IF FGreater(vol, F(30))
            THEN <<"High sentiment volatility - mood changed frequently">>
            ELSE IF FLess(vol, F(10))
            THEN <<"Low sentiment volatility - consistent emotional tone">>
            ELSE <<>>
    IN  <<trend_insight>> \o shift_insight \o distribution_insight
            \o volatility_insight

\* summarize_insights; overall_sentiment is a summary of analyze_conversation
summarize_insights(analysis, overall_sentiment) ==
    LET trend_insight ==
            IF analysis.trend = "improving"
            THEN "Conversation mood improved over time"
            ELSE IF analysis.trend = "declining"
            THEN "Conversation mood declined over time"
            ELSE "Sentiment remained relatively consistent"
        key_moments ==
            IF "key_moments" \in analysis.keys THEN analysis.key_moments ELSE <<>>
        significant_shifts == SelectSeq(key_moments, IsShift)
        shift_insight ==
            IF significant_shifts # <<>>
            THEN <<"Detected " \o ToString(Len(significant_shifts))
                       \o " significant sentiment shift(s)">>
            ELSE <<>>
        dist == overall_sentiment.label_distribution
        total == dist["Positive"] + dist["Negative"] + dist["Neutral"]
        distribution_insight ==
            IF ~overall_sentiment.has_distribution THEN <<>>
            ELSE IF dist["Positive"] > dist["Negative"]
            THEN <<"Predominantly positive messages (" \o ToString(dist["Positive"])
                       \o "/" \o ToString(total) \o ")">>
            ELSE IF dist["Negative"] > dist["Positive"]
            THEN <<"Predominantly negative messages (" \o ToString(dist["Negative"])
                       \o "/" \o ToString(total) \o ")">>
            ELSE <<"Balanced mix of positive and negative messages">>
        vol ==
            IF "volatility" \in analysis.keys THEN analysis.volatility ELSE Zero
        volatility_insight ==
            IF FGreater(vol, F(30))
            THEN <<"High sentiment volatility - mood changed frequently">>
            ELSE IF FLess(vol, F(10))
            THEN <<"Low sentiment volatility - consistent emotional tone">>
            ELSE <<>>
    IN  <<trend_insight>> \o shift_insight \o distribution_insight
            \o volatility_insight

----------------------------------------------------------------------------
(* EmotionDetector (src/src/emotion.py).  The sentiment score handed to     *)
(* detect_emotions is in hundredths, {} when it is None; the emotion scores *)
(* are floats.  A dictionary is a function on its keys, and its iteration   *)
(* order is the order in which the code inserts the keys.                   *)

\* self.emotion_keywords, in definition order
emotion_keywords == <<
    [emotion |-> "joy",
     keywords |-> <<"happy", "joy", "delighted", "excited", "thrilled", "ecstatic",
                    "wonderful", "amazing", "fantastic", "great", "love", "adore">>],
    [emotion |-> "sadness",
     keywords |-> <<"sad", "depressed", "unhappy", "miserable", "disappointed",
                    "upset", "down", "sorrow", "grief", "melancholy">>],
    [emotion |-> "anger",
     keywords |-> <<"angry", "mad", "furious", "rage", "annoyed", "irritated",
                    "frustrated", "outraged", "livid", "hate">>],
    [emotion |-> "fear",
     keywords |-> <<"afraid", "scared", "fearful", "worried", "anxious", "nervous",
                    "terrified", "panic", "dread", "concerned">>],
    [emotion |-> "surprise",
     keywords |-> <<"surprised", "shocked", "amazed", "astonished", "wow",
                    "unexpected", "incredible", "unbelievable">>],
    [emotion |-> "disgust",
     keywords |-> <<"disgusted", "revolted", "sickened", "repulsed", "nauseated">> ] >>

\* the counting loop without the test `if score > 0`: every category gets a score
normalized_scores_all(text_lower) ==
    LET hits == [i \in DOMAIN emotion_keywords |->
                    Cardinality({k \in DOMAIN emotion_keywords[i].keywords :
                        Contains(text_lower, emotion_keywords[i].keywords[k])})]
    IN  [emotion \in {emotion_keywords[i].emotion : i \in DOMAIN emotion_keywords} |->
            LET i == CHOOSE j \in DOMAIN emotion_keywords :
                         emotion_keywords[j].emotion = emotion
            IN  FDiv(FromInt(hits[i]), FromInt(Len(emotion_keywords[i].keywords)))]

\* lines 54-57: emotion_scores after the counting loop; a category is a key
\* when at least one of its keywords occurs in the text
normalized_scores(text_lower) ==
    LET hits == [i \in DOMAIN emotion_keywords |->
                    Cardinality({k \in DOMAIN emotion_keywords[i].keywords :
                        Contains(text_lower, emotion_keywords[i].keywords[k])})]
    IN  [emotion \in {emotion_keywords[i].emotion :
                         i \in {j \in DOMAIN emotion_keywords : hits[j] > 0}} |->
            LET i == CHOOSE j \in DOMAIN emotion_keywords :
                         emotion_keywords[j].emotion = emotion
            IN  FDiv(FromInt(hits[i]), FromInt(Len(emotion_keywords[i].keywords)))]

\* lines 60-67: the boost by the sentiment score; 1.5 is 3 * 2^-1
refine_scores(emotion_scores, score) ==
    IF score = {} THEN emotion_scores
    ELSE LET s == CHOOSE v \in score : TRUE
             present == DOMAIN emotion_scores
             boosted(emotion) ==
                 [emotion_scores EXCEPT ![emotion] = FMul(@, [m |-> 3, e |-> -1])]
         IN  IF s > 30 /\ "joy" \in present THEN boosted("joy")
             ELSE IF s < -30
             THEN (IF "anger" \in present THEN boosted("anger")
                   ELSE IF "sadness" \in present THEN boosted("sadness")
                   ELSE emotion_scores)
             ELSE emotion_scores

\* max over a dictionary that keeps the last of several maximal items
RECURSIVE max_key_last_from(_, _, _, _)
max_key_last_from(d, order, i, best) ==
    IF i > Len(order) THEN best
    ELSE max_key_last_from(d, order, i + 1,
                           IF ~FLess(d[order[i]], d[best]) THEN order[i] ELSE best)

\* max(d.items(), key=lambda x: x[1])[0], order being the keys of d in iteration
\* order: the first key whose value no other key exceeds
RECURSIVE max_key_from(_, _, _, _)
max_key_from(d, order, i, best) ==
    IF i > Len(order) THEN best
    ELSE max_key_from(d, order, i + 1,
                      IF FGreater(d[order[i]], d[best]) THEN order[i] ELSE best)

\* lines 43-81.  The loop of line 54 inserts the keys of emotion_scores in the
\* order of self.emotion_keywords; min(confidence, 1.0) is 1.0 when 1.0 < confidence.
detect_emotions(s, score) ==
    IF IsBlank(s)
    THEN [primary_emotion |-> "neutral", emotions |-> [emotion \in {} |-> Zero],
          confidence |-> Zero]
    ELSE LET with_primary(emotion_scores, primary_emotion) ==
                 [primary_emotion |-> primary_emotion,
                  emotions |-> emotion_scores,
                  confidence |->
                      IF FLess([m |-> 1, e |-> 0], emotion_scores[primary_emotion])
                      THEN [m |-> 1, e |-> 0] ELSE emotion_scores[primary_emotion]]
             in_order(emotion_scores, order) ==
                 IF order # <<>>
                 THEN with_primary(emotion_scores,
                                   max_key_from(emotion_scores, order, 2, order[1]))
                 ELSE [primary_emotion |-> "neutral", emotions |-> emotion_scores,
                       confidence |-> Zero]
             scored(emotion_scores) ==
                 in_order(emotion_scores,
                          SelectSeq([i \in DOMAIN emotion_keywords |->
                                        emotion_keywords[i].emotion],
                                    LAMBDA emotion : emotion \in DOMAIN emotion_scores))
         IN  scored(refine_scores(normalized_scores(Lower(s)), score))

\* lines 106-138.  A message of the payload is [text, score], score being {} when
\* the message has no sentiment score (read as 0.0).  Line 118 inserts a primary
\* emotion into emotion_counts at the first message that has it: distribution_order
\* is the iteration order of emotion_distribution.
analyze_conversation_emotions(msgs) ==
    LET counted(results, order) ==
            LET emotion_counts ==
                    [emotion \in {order[k] : k \in DOMAIN order} |->
                        Cardinality({i \in DOMAIN results :
                                        results[i].primary_emotion = emotion})]
                confidences(emotion) ==
                    [i \in DOMAIN SelectSeq(results,
                              LAMBDA r : r.primary_emotion = emotion) |->
                        SelectSeq(results,
                                  LAMBDA r : r.primary_emotion = emotion)[i].confidence]
                best[i \in DOMAIN order] ==
                    IF i = 1 THEN order[1]
                    ELSE IF emotion_counts[order[i]] > emotion_counts[best[i - 1]]
                    THEN order[i] ELSE best[i - 1]
            IN  [emotion_distribution |-> emotion_counts,
                 distribution_order |-> order,
                 dominant_emotion |->
                     IF order # <<>> THEN best[Len(order)] ELSE "neutral",
                 average_confidence |->
                     [emotion \in DOMAIN emotion_counts |->
                         FDiv(FSum(confidences(emotion)),
                              FromInt(Len(confidences(emotion))))],
                 total_emotions_detected |->
                     Cardinality({emotion \in DOMAIN emotion_counts :
                                     emotion_counts[emotion] > 0})]
        ordered(results) ==
            LET inserted[i \in 0..Len(results)] ==
                    IF i = 0 THEN <<>>
                    ELSE IF \E k \in DOMAIN inserted[i - 1] :
                                inserted[i - 1][k] = results[i].primary_emotion
                    THEN inserted[i - 1]
                    ELSE Append(inserted[i - 1], results[i].primary_emotion)
            IN  counted(results, inserted[Len(results)])
    IN  ordered([i \in DOMAIN msgs |->
                    detect_emotions(msgs[i].text,
                                    IF msgs[i].score = {} THEN {0} ELSE msgs[i].score)])

----------------------------------------------------------------------------
(* Chatbot (src/src/chatbot.py).  random.choice is a choice among the       *)
(* responses of the list: generate_response is the set of the strings a     *)
(* call can return.  A sentiment argument is {} (None or an empty           *)
(* dictionary) or {dictionary}.                                             *)

\* str.strip()
Strip(s) ==
    LET kept == {i \in 1..Len(s) : ~IsSpace(CharAt(s, i))}
    IN  IF kept = {} THEN ""
        ELSE SubSeq(s, CHOOSE i \in kept : \A j \in kept : i <= j,
                       CHOOSE i \in kept : \A j \in kept : i >= j)

\* line 44: the context keeps this many messages
ContextLimit == 10

\* the context after an eviction of the newest message instead of the oldest
update_context_pop_last(context, user_message) ==
    LET appended == Append(context, user_message)
    IN  IF Len(appended) > ContextLimit
        THEN SubSeq(appended, 1, Len(appended) - 1) ELSE appended

\* lines 43-45
update_context(context, user_message) ==
    LET appended == Append(context, user_message)
    IN  IF Len(appended) > ContextLimit THEN Tail(appended) ELSE appended

\* lines 59-60
is_exit_command(message) ==
    Strip(Lower(message)) \in {"quit", "exit", "bye", "goodbye", "end", "stop"}

\* lines 125-154
generate_default_response(message) ==
    IF ContainsAny(Lower(message), {"hello", "hi", "hey", "greetings"})
    THEN {"Hello! I'm here to help. How can I assist you today?"}
    ELSE IF Contains(message, "?")
    THEN {"That's an interesting question. Let me help you with that.",
          "I'd be happy to help answer that. Can you provide a bit more context?",
          "Good question! Let me think about how best to assist you.",
          "I understand you're asking about that. Here's what I can tell you..."}
    ELSE IF ContainsAny(Lower(message), {"thank", "thanks", "appreciate"})
    THEN {"You're welcome! I'm here if you need anything else."}
    ELSE {"I understand. Can you tell me more about that?",
          "That's interesting. How can I help you with this?",
          "I see. What would you like to know more about?",
          "Got it. Is there something specific you'd like me to help with?",
          "I'm here to help. What can I do for you?",
          "Thanks for sharing. How can I assist you further?"}

\* lines 75-121
generate_empathetic_response(message, sentiment) ==
    IF sentiment.label = "Negative" /\ sentiment.score < -50
    THEN {"I'm really sorry to hear that. I understand this is frustrating. Can you tell me more about what went wrong?",
          "I sense you're quite upset about this. I want to help resolve this. What can I do?",
          "I apologize for the negative experience. Let's work together to fix this. What happened?",
          "I'm sorry this has been disappointing. Your feedback is important to us. Can you share more details?"}
    ELSE IF sentiment.label = "Negative"
    THEN {"I understand your concern. Let me help address this issue.",
          "I'm sorry to hear that. Can you provide more details so I can assist you better?",
          "I appreciate you sharing this. Let's work on finding a solution together.",
          "Thank you for your feedback. I'll make sure this is addressed properly."}
    ELSE IF sentiment.label = "Positive" /\ sentiment.score > 50
    THEN {"I'm so glad to hear that! It makes me happy to know you're satisfied.",
          "That's wonderful! I'm thrilled that you're having a positive experience.",
          "Great to hear! I'm delighted that things are working well for you.",
          "That's fantastic! Thank you for the positive feedback."}
    ELSE IF sentiment.label = "Positive"
    THEN {"I'm glad to hear that! Is there anything else I can help with?",
          "That's good to know! How else can I assist you today?",
          "Great! I'm happy to help. What would you like to know more about?",
          "Wonderful! Feel free to ask if you need anything else."}
    ELSE generate_default_response(message)

\* lines 47-55 and _get_exit_response: what generate_response can return
generate_response(user_message, sentiment) ==
    IF is_exit_command(user_message)
    THEN {"Thank you for chatting! Have a great day!",
          "It was nice talking with you. Goodbye!",
          "Thanks for the conversation. Take care!",
          "Goodbye! Feel free to come back anytime."}
    ELSE IF sentiment # {}
    THEN generate_empathetic_response(user_message, CHOOSE d \in sentiment : TRUE)
    ELSE generate_default_response(user_message)

----------------------------------------------------------------------------
(* Conversation and Message (src/src/conversation.py).  A message is        *)
(* [text, sender, sentiment], the sentiment {} when it is None; a timestamp *)
(* that is set is "now", and end_time is "None" until the conversation is   *)
(* ended.                                                                   *)

\* Conversation.__init__
NewConversation == [messages |-> <<>>, end_time |-> "None"]

\* add_message that inserts the message at the front of the list
add_message_front(conv, text_, sender, sentiment) ==
    [conv EXCEPT !.messages =
        <<[text |-> text_, sender |-> sender, sentiment |-> sentiment]>> \o @]

\* lines 85-90; an empty sentiment is left None by line 86
add_message(conv, text_, sender, sentiment) ==
    [conv EXCEPT !.messages =
        Append(@, [text |-> text_, sender |-> sender, sentiment |-> sentiment])]

get_user_messages(conv) == SelectSeq(conv.messages, LAMBDA msg : msg.sender = "user")
get_bot_messages(conv) == SelectSeq(conv.messages, LAMBDA msg : msg.sender = "bot")
get_message_count(conv) == Len(conv.messages)
get_user_message_count(conv) == Len(get_user_messages(conv))

\* end_conversation that leaves end_time as it is
end_conversation_unset(conv) == conv

\* lines 112-115
end_conversation(conv) == [conv EXCEPT !.end_time = "now"]

----------------------------------------------------------------------------
(* Inputs.                                                                 *)

NoResult == Result(0, "none", 0, {})
NoSummary == EmptySummary("none")

\* the messages of the conversations handed to analyze_conversation
ConvLexiconScores == {-30, -10, 0, 5, 20, 40}
ConvPipelineScores == {60, 100}
ConvOutputs(type) ==
    IF type = "transformers"
    THEN {[fails |-> FALSE, label |-> l, score |-> s] :
              l \in {"POSITIVE", "NEGATIVE"}, s \in ConvPipelineScores} \cup {Raises}
    ELSE {[fails |-> FALSE, label |-> "none", score |-> s] : s \in ConvLexiconScores}
             \cup {Raises}
ConvMessages(type) ==
    {[is_text |-> TRUE, text |-> t, out |-> o] : t \in ConvTexts, o \in ConvOutputs(type)}
        \cup {[is_text |-> TRUE, text |-> "", out |-> NoCall],
              [is_text |-> FALSE, text |-> "", out |-> NoCall]}
Conversations(type) == UNION {[1..n -> ConvMessages(type)] : n \in 0..MaxMsgs}

\* the (score, label) pairs of the messages handed to analyze_trend, the
\* scores in hundredths
TrendPoints ==
    {<<-80, "Negative">>, <<0, "Neutral">>, <<10, "Positive">>, <<40, "Positive">>,
     <<70, "Positive">>, <<80, "Positive">>}
TrendSeries == UNION {[1..n -> TrendPoints] : n \in 0..MaxScores}
FloatOf == [h \in {point[1] : point \in TrendPoints} |-> F(h)]

\* the summaries handed to summarize_insights: of an empty conversation and of
\* conversations with more, fewer and as many Positive as Negative messages
Scored(score) ==
    [is_text |-> TRUE, text |-> "hello",
     out |-> [fails |-> FALSE, label |-> "none", score |-> score]]
InsightSummaries ==
    {analyze_conversation("vader", msgs) :
        msgs \in {<<>>, <<Scored(40)>>, <<Scored(-30)>>,
                          <<Scored(40), Scored(-30)>>}}

NoTrend == TrendResult({}, "none", "none", Zero, Zero, <<>>, <<>>, Zero)

\* the emotion detector, the chatbot, a conversation and the chat service
\* before anything is done with them
DialogueIdle ==
    /\ sentiment_score = {}
    /\ emotion_result = [primary_emotion |-> "neutral", emotions |-> <<>>,
                          confidence |-> Zero]
    /\ emotion_data = <<>>
    /\ emotion_analysis = [emotion_distribution |-> <<>>, distribution_order |-> <<>>,
                            dominant_emotion |-> "neutral", average_confidence |-> <<>>,
                            total_emotions_detected |-> 0]
    /\ conversation_context = <<>>
    /\ sent = <<>>
    /\ response = ""
    /\ conversation = NewConversation
    /\ added = <<>>
    /\ threaded = FALSE
    /\ conversations = [session_id \in {"s1", "s2"} |-> 0]
    /\ heap = <<>>
    /\ requests = <<>>

----------------------------------------------------------------------------
(* Single messages: analyze_text, called once or repeatedly on a text, and *)
(* the adjuster applied to a result it has already adjusted.               *)

Init ==
    /\ analyzer_type \in AnalyzerTypes
    /\ text \in Texts
    /\ raw \in (IF IsBlank(text) THEN {NoCall} ELSE RawOutputs(analyzer_type))
    /\ result = NoResult
    /\ prev_result = NoResult
    /\ pc = "ready"
    /\ messages = <<>>
    /\ summary = NoSummary
    /\ sentiment_scores = <<>>
    /\ sentiment_labels = <<>>
    /\ trend_analysis = NoTrend
    /\ volatility = Zero
    /\ insights = <<>>
    /\ DialogueIdle

\* result = engine.analyze_text(text), the first call and a repeated one
AnalyzeText ==
    /\ pc \in {"ready", "analyzed"}
    /\ prev_result' = result
    /\ result' = analyze_text(analyzer_type, text, raw)
    /\ pc' = IF pc = "ready" THEN "analyzed" ELSE "repeated"
    /\ UNCHANGED <<analyzer_type, text, raw>>
    /\ UNCHANGED convVars
    /\ UNCHANGED trendVars
    /\ UNCHANGED dialogueVars

\* result = engine._detect_comparative_sentiment(text, result) on an adjusted result
Readjust ==
    /\ pc = "analyzed"
    /\ result.adjusted
    /\ prev_result' = result
    /\ result' = detect_comparative_sentiment(analyzer_type, text, result)
    /\ pc' = "readjusted"
    /\ UNCHANGED <<analyzer_type, text, raw>>
    /\ UNCHANGED convVars
    /\ UNCHANGED trendVars
    /\ UNCHANGED dialogueVars

Next == AnalyzeText \/ Readjust

Spec == Init /\ [][Next]_vars

----------------------------------------------------------------------------
(* Conversations: analyze_conversation on a list of messages.              *)

InitConv ==
    /\ analyzer_type \in AnalyzerTypes
    /\ text = ""
    /\ raw = NoCall
    /\ result = NoResult
    /\ prev_result = NoResult
    /\ pc = "conv_ready"
    /\ messages = <<>>
    /\ summary = NoSummary
    /\ sentiment_scores = <<>>
    /\ sentiment_labels = <<>>
    /\ trend_analysis = NoTrend
    /\ volatility = Zero
    /\ insights = <<>>
    /\ DialogueIdle

\* summary = engine.analyze_conversation(messages)
AnalyzeConversation ==
    /\ pc = "conv_ready"
    /\ \E msgs \in Conversations(analyzer_type) :
        /\ messages' = msgs
        /\ summary' = analyze_conversation(analyzer_type, msgs)
    /\ pc' = "conv_done"
    /\ UNCHANGED <<analyzer_type, text, raw, result, prev_result>>
    /\ UNCHANGED trendVars
    /\ UNCHANGED dialogueVars

NextConv == AnalyzeConversation

SpecConv == InitConv /\ [][NextConv]_vars

----------------------------------------------------------------------------
(* Trends: analyze_trend and _calculate_volatility on the scores and labels *)
(* of a conversation, and summarize_insights on the trend and a summary.    *)

InitTrend ==
    /\ analyzer_type = "vader"
    /\ text = ""
    /\ raw = NoCall
    /\ result = NoResult
    /\ prev_result = NoResult
    /\ pc = "trend_ready"
    /\ messages = <<>>
    /\ summary = NoSummary
    /\ \E series \in TrendSeries :
        /\ sentiment_scores = [i \in DOMAIN series |-> FloatOf[series[i][1]]]
        /\ sentiment_labels = [i \in DOMAIN series |-> series[i][2]]
    /\ trend_analysis = NoTrend
    /\ volatility = Zero
    /\ insights = <<>>
    /\ DialogueIdle

\* trend_analysis = trend_analyzer.analyze_trend(sentiment_scores, sentiment_labels)
AnalyzeTrend ==
    /\ pc = "trend_ready"
    /\ trend_analysis' = analyze_trend(sentiment_scores, sentiment_labels)
    /\ pc' = "trend_done"
    /\ UNCHANGED <<analyzer_type, text, raw, result, prev_result>>
    /\ UNCHANGED convVars
    /\ UNCHANGED <<sentiment_scores, sentiment_labels, volatility, insights>>
    /\ UNCHANGED dialogueVars

\* insights = trend_analyzer.summarize_insights(trend_analysis, overall_sentiment)
SummarizeInsights ==
    /\ pc = "trend_done"
    /\ \E overall_sentiment \in InsightSummaries :
        /\ summary' = overall_sentiment
        /\ insights' = summarize_insights(trend_analysis, overall_sentiment)
    /\ pc' = "insights_done"
    /\ UNCHANGED <<analyzer_type, text, raw, result, prev_result, messages>>
    /\ UNCHANGED <<sentiment_scores, sentiment_labels, trend_analysis, volatility>>
    /\ UNCHANGED dialogueVars

\* volatility = trend_analyzer._calculate_volatility(sentiment_scores)
CalculateVolatility ==
    /\ pc = "trend_ready"
    /\ volatility' = calculate_volatility(sentiment_scores)
    /\ pc' = "volatility_done"
    /\ UNCHANGED <<analyzer_type, text, raw, result, prev_result>>
    /\ UNCHANGED convVars
    /\ UNCHANGED <<sentiment_scores, sentiment_labels, trend_analysis, insights>>
    /\ UNCHANGED dialogueVars

NextTrend == AnalyzeTrend \/ SummarizeInsights \/ CalculateVolatility

SpecTrend == InitTrend /\ [][NextTrend]_vars

----------------------------------------------------------------------------
(* The emotion detector, the chatbot and a conversation, each used on its   *)
(* own: detect_emotions on a text, analyze_conversation_emotions on a       *)
(* payload, generate_response and reset_context on one Chatbot, add_message *)
(* and end_conversation on one Conversation.  sent is the list of the       *)
(* messages handed to generate_response since the last reset, added the     *)
(* list of the messages handed to add_message.                              *)

InitDialogue ==
    /\ analyzer_type = "vader"
    /\ text = ""
    /\ raw = NoCall
    /\ result = NoResult
    /\ prev_result = NoResult
    /\ pc = "idle"
    /\ messages = <<>>
    /\ summary = NoSummary
    /\ sentiment_scores = <<>>
    /\ sentiment_labels = <<>>
    /\ trend_analysis = NoTrend
    /\ volatility = Zero
    /\ insights = <<>>
    /\ DialogueIdle

\* emotion_result = emotion_detector.detect_emotions(text, sentiment_score)
DetectEmotions ==
    /\ pc = "idle"
    /\ \E s \in {"", "   ", "hello", "I am happy", "sad and angry", "unhappy",
                 "amazed and happy", "Angry, SAD", "scared and disgusted",
                 "happy joy delighted excited thrilled ecstatic wonderful amazing fantastic"},
          score \in {{}, {-40}, {-30}, {30}, {40}} :
        /\ text' = s
        /\ sentiment_score' = score
        /\ emotion_result' = detect_emotions(s, score)
    /\ pc' = "emotion_done"
    /\ UNCHANGED <<analyzer_type, raw, result, prev_result>>
    /\ UNCHANGED <<convVars, trendVars>>
    /\ UNCHANGED <<emotion_data, emotion_analysis, conversation_context, sent, response,
                   conversation, added, threaded, conversations, heap, requests>>

\* emotion_analysis = emotion_detector.analyze_conversation_emotions(emotion_data)
AnalyzeConversationEmotions ==
    /\ pc = "idle"
    /\ \E msgs \in UNION {[1..n -> {[text |-> "happy", score |-> {40}],
                                    [text |-> "sad", score |-> {-40}],
                                    [text |-> "sad and angry", score |-> {}],
                                    [text |-> "hello", score |-> {0}]}] :
                             n \in 0..MaxEmotionMsgs} :
        /\ emotion_data' = msgs
        /\ emotion_analysis' = analyze_conversation_emotions(msgs)
    /\ pc' = "emotions_done"
    /\ UNCHANGED <<analyzer_type, text, raw, result, prev_result>>
    /\ UNCHANGED <<convVars, trendVars>>
    /\ UNCHANGED <<sentiment_score, emotion_result, conversation_context, sent, response,
                   conversation, added, threaded, conversations, heap, requests>>

\* response = chatbot.generate_response(user_message, sentiment); result is the
\* sentiment dictionary handed over, if any
GenerateResponse ==
    /\ pc \in {"idle", "chatting"}
    /\ Len(sent) < MaxCalls
    /\ \E user_message \in {"I love this!", "Bye "},
          sentiment \in {{}, {Result(70, "Positive", 70, {})},
                         {Result(30, "Positive", 30, {})}} :
        /\ conversation_context' = update_context(conversation_context, user_message)
        /\ sent' = Append(sent, user_message)
        /\ result' = IF sentiment = {} THEN NoResult ELSE CHOOSE d \in sentiment : TRUE
        /\ response' \in generate_response(user_message, sentiment)
    /\ pc' = "chatting"
    /\ UNCHANGED <<analyzer_type, text, raw, prev_result>>
    /\ UNCHANGED <<convVars, trendVars>>
    /\ UNCHANGED <<sentiment_score, emotion_result, emotion_data, emotion_analysis,
                   conversation, added, threaded, conversations, heap, requests>>

\* chatbot.reset_context()
ResetContext ==
    /\ pc = "chatting"
    /\ conversation_context' = <<>>
    /\ sent' = <<>>
    /\ UNCHANGED <<engineVars, convVars, trendVars>>
    /\ UNCHANGED <<sentiment_score, emotion_result, emotion_data, emotion_analysis,
                   response, conversation, added, threaded, conversations, heap,
                   requests>>

\* conversation.add_message(text, sender, sentiment)
AddMessage ==
    /\ pc \in {"idle", "conversing"}
    /\ Len(added) < MaxAdded
    /\ \E s \in {"hi", "ok"}, sender \in {"user", "bot"},
          sentiment \in {{}, {Result(30, "Positive", 30, {})}} :
        /\ conversation' = add_message(conversation, s, sender, sentiment)
        /\ added' = Append(added, [text |-> s, sender |-> sender,
                                   sentiment |-> sentiment])
    /\ pc' = "conversing"
    /\ UNCHANGED <<analyzer_type, text, raw, result, prev_result>>
    /\ UNCHANGED <<convVars, trendVars>>
    /\ UNCHANGED <<sentiment_score, emotion_result, emotion_data, emotion_analysis,
                   conversation_context, sent, response, threaded, conversations, heap,
                   requests>>

\* conversation.end_conversation()
EndConversation ==
    /\ pc \in {"idle", "conversing"}
    /\ conversation' = end_conversation(conversation)
    /\ pc' = "conversing"
    /\ UNCHANGED <<analyzer_type, text, raw, result, prev_result>>
    /\ UNCHANGED <<convVars, trendVars>>
    /\ UNCHANGED <<sentiment_score, emotion_result, emotion_data, emotion_analysis,
                   conversation_context, sent, response, added, threaded, conversations,
                   heap, requests>>

NextDialogue ==
    \/ DetectEmotions
    \/ AnalyzeConversationEmotions
    \/ GenerateResponse
    \/ ResetContext
    \/ AddMessage
    \/ EndConversation

SpecDialogue == InitDialogue /\ [][NextDialogue]_vars

----------------------------------------------------------------------------
(* The chat service: the handler chat() of /api/chat (src/web_app.py and    *)
(* src/api/index.py, which differ only in where the session id comes from). *)
(* Every request is handled by a thread of its own; the threads share the   *)
(* dictionary conversations, the Conversation objects (heap, a dictionary   *)
(* entry being the position of its object, 0 when the key is absent) and    *)
(* the Chatbot.  A thread can be suspended between any two statements: an   *)
(* action is one access to the shared state with the local computation      *)
(* before it.  When the server is not threaded a request is received only   *)
(* after the previous one has been answered.                                *)

InitService ==
    /\ analyzer_type = "vader"
    /\ text = ""
    /\ raw = NoCall
    /\ result = NoResult
    /\ prev_result = NoResult
    /\ pc = "serving"
    /\ messages = <<>>
    /\ summary = NoSummary
    /\ sentiment_scores = <<>>
    /\ sentiment_labels = <<>>
    /\ trend_analysis = NoTrend
    /\ volatility = Zero
    /\ insights = <<>>
    /\ sentiment_score = {}
    /\ emotion_result = [primary_emotion |-> "neutral", emotions |-> <<>>,
                          confidence |-> Zero]
    /\ emotion_data = <<>>
    /\ emotion_analysis = [emotion_distribution |-> <<>>, distribution_order |-> <<>>,
                            dominant_emotion |-> "neutral", average_confidence |-> <<>>,
                            total_emotions_detected |-> 0]
    /\ conversation_context = <<>>
    /\ sent = <<>>
    /\ response = ""
    /\ conversation = NewConversation
    /\ added = <<>>
    /\ threaded \in BOOLEAN
    /\ conversations = [session_id \in {"s1", "s2"} |-> 0]
    /\ heap = <<>>
    /\ requests = <<>>

\* lines 61-69 of web_app.py: the message is stripped and an empty one is
\* answered with status 400
Receive ==
    /\ pc = "serving"
    /\ Len(requests) < MaxRequests
    /\ threaded \/ \A r \in DOMAIN requests : requests[r].at = "done"
    /\ \E message \in {" ", "hello", "Bye "}, session_id \in DOMAIN conversations :
        LET user_message == Strip(message)
        IN  requests' = Append(requests,
                [message |-> message, user_message |-> user_message,
                 session_id |-> session_id, conversation |-> 0, sentiment |-> {},
                 bot_response |-> "",
                 at |-> IF user_message = "" THEN "done" ELSE "check",
                 status |-> IF user_message = "" THEN "rejected" ELSE "pending"])
    /\ UNCHANGED <<engineVars, convVars, trendVars>>
    /\ UNCHANGED <<sentiment_score, emotion_result, emotion_data, emotion_analysis,
                   conversation_context, sent, response, conversation, added,
                   threaded, conversations, heap>>

\* line 72: if session_id not in conversations
CheckSession ==
    /\ \E r \in DOMAIN requests :
        /\ requests[r].at = "check"
        /\ requests' = [requests EXCEPT ![r].at =
               IF conversations[requests[r].session_id] = 0 THEN "create" ELSE "fetch"]
    /\ UNCHANGED <<engineVars, convVars, trendVars>>
    /\ UNCHANGED <<sentiment_score, emotion_result, emotion_data, emotion_analysis,
                   conversation_context, sent, response, conversation, added,
                   threaded, conversations, heap>>

\* line 73: conversations[session_id] = Conversation(...)
CreateConversation ==
    /\ \E r \in DOMAIN requests :
        /\ requests[r].at = "create"
        /\ heap' = Append(heap, NewConversation)
        /\ conversations' =
               [conversations EXCEPT ![requests[r].session_id] = Len(heap) + 1]
        /\ requests' = [requests EXCEPT ![r].at = "fetch"]
    /\ UNCHANGED <<engineVars, convVars, trendVars>>
    /\ UNCHANGED <<sentiment_score, emotion_result, emotion_data, emotion_analysis,
                   conversation_context, sent, response, conversation, added,
                   threaded>>

\* line 75: conversation = conversations[session_id]
FetchConversation ==
    /\ \E r \in DOMAIN requests :
        /\ requests[r].at = "fetch"
        /\ requests' = [requests EXCEPT
               ![r].conversation = conversations[requests[r].session_id],
               ![r].at = "handle"]
    /\ UNCHANGED <<engineVars, convVars, trendVars>>
    /\ UNCHANGED <<sentiment_score, emotion_result, emotion_data, emotion_analysis,
                   conversation_context, sent, response, conversation, added,
                   threaded, conversations, heap>>

\* lines 78-97: an exit command ends the conversation and is answered with the
\* final analysis; any other message is analysed, the emotion is attached to
\* the sentiment, and the user message is added to the conversation
HandleMessage ==
    /\ \E r \in DOMAIN requests :
        /\ requests[r].at = "handle"
        /\ LET user_message == requests[r].user_message
               c == requests[r].conversation
           IN  IF is_exit_command(user_message)
               THEN /\ heap' = [heap EXCEPT ![c] = end_conversation(@)]
                    /\ requests' = [requests EXCEPT ![r].at = "done",
                                                    ![r].status = "ended"]
               ELSE \E out \in {[fails |-> FALSE, label |-> "none", score |-> 0],
                                [fails |-> FALSE, label |-> "none", score |-> 40]} :
                       LET scored == analyze_text(analyzer_type, user_message, out)
                           sentiment ==
                               [score |-> scored.score, label |-> scored.label,
                                confidence |-> scored.confidence,
                                emotion |-> detect_emotions(user_message,
                                                            {scored.score})]
                       IN  /\ heap' = [heap EXCEPT ![c] =
                                  add_message(@, user_message, "user", {sentiment})]
                           /\ requests' = [requests EXCEPT
                                  ![r].sentiment = {sentiment},
                                  ![r].at = "respond"]
    /\ UNCHANGED <<engineVars, convVars, trendVars>>
    /\ UNCHANGED <<sentiment_score, emotion_result, emotion_data, emotion_analysis,
                   conversation_context, sent, response, conversation, added,
                   threaded, conversations>>

\* lines 100-104: bot_response = chatbot.generate_response(...) on the shared Chatbot
Respond ==
    /\ \E r \in DOMAIN requests :
        /\ requests[r].at = "respond"
        /\ \E bot_response \in generate_response(requests[r].user_message,
                                                 requests[r].sentiment) :
            /\ response' = bot_response
            /\ requests' = [requests EXCEPT ![r].bot_response = bot_response,
                                            ![r].at = "reply"]
        /\ conversation_context' =
               update_context(conversation_context, requests[r].user_message)
        /\ sent' = Append(sent, requests[r].user_message)
    /\ UNCHANGED <<engineVars, convVars, trendVars>>
    /\ UNCHANGED <<sentiment_score, emotion_result, emotion_data, emotion_analysis,
                   conversation, added, threaded, conversations, heap>>

\* line 107: conversation.add_message(bot_response, 'bot')
AddBotMessage ==
    /\ \E r \in DOMAIN requests :
        /\ requests[r].at = "reply"
        /\ heap' = [heap EXCEPT ![requests[r].conversation] =
               add_message(@, requests[r].bot_response, "bot", {})]
        /\ requests' = [requests EXCEPT ![r].at = "done", ![r].status = "message"]
    /\ UNCHANGED <<engineVars, convVars, trendVars>>
    /\ UNCHANGED <<sentiment_score, emotion_result, emotion_data, emotion_analysis,
                   conversation_context, sent, response, conversation, added,
                   threaded, conversations>>

NextService ==
    \/ Receive
    \/ CheckSession
    \/ CreateConversation
    \/ FetchConversation
    \/ HandleMessage
    \/ Respond
    \/ AddBotMessage

SpecService == InitService /\ [][NextService]_vars

----------------------------------------------------------------------------
(* Properties of analyze_conversation, checked under SpecConv.             *)

\* analyze_conversation has returned a summary of at least one analysed message
Aggregated == pc = "conv_done" /\ summary.has_distribution

C2_CountsSumToTotal ==
    Aggregated =>
        summary.label_distribution["Positive"] + summary.label_distribution["Negative"]
            + summary.label_distribution["Neutral"] = summary.total_messages

----------------------------------------------------------------------------
(* Properties of analyze_text and of the adjuster, checked under Spec.     *)

\* the ten words of the pejorative negative-signal pattern (line 240)
PejorativeVocabulary ==
    {"rubbish", "nonsense", "stupid", "idiotic", "ridiculous", "terrible",
     "awful", "horrible", "disgusting", "pathetic"}

\* what self.analyzer.analyze(text) returns in analyze_text (line 354)
BaseResult == analyze(analyzer_type, text, raw).r

\* analyze_text has returned and the adjuster ran on the scorer's result
AdjusterRan ==
    pc \in {"analyzed", "repeated"} /\ ~analyze(analyzer_type, text, raw).raised

\* C3: the label of every result of analyze_text is get_label(score) of the
\* active analyzer, adjusted or not.
C3_LabelMatchesScore ==
    pc \in {"analyzed", "repeated"} =>
        result.label = get_label(analyzer_type, result.score)

\* C4: a text that contains a word of the pejorative pattern gets the fixed
\* score -0.7, whatever the base score.
C4_PejorativeIsMinus07 ==
    (AdjusterRan /\ ContainsAny(Lower(text), PejorativeVocabulary)) =>
        result.score = -70

\* C5: a text that matches a negative pattern and contains a "didn't/don't find"
\* phrase gets -0.7 when a pejorative word is present (the pejorative rule has
\* priority), and otherwise -0.6 with a positive adjective and -0.4 without.
C5_DidntFindRule ==
    (AdjusterRan /\ negative_patterns[text] # {}
         /\ ContainsAny(Lower(text), DidntFindPhrases)) =>
        IF ContainsAny(Lower(text), PejorativeVocabulary)
        THEN result.score = -70
        ELSE IF ContainsAny(Lower(text), PositiveAdjectives)
        THEN result.score = -60
        ELSE result.score = -40

\* the case of C6: a negative pattern matches, no pejorative word (of the
\* pejorative pattern or of the adjuster's own list) and no "didn't find" phrase
C6_Case ==
    /\ AdjusterRan
    /\ negative_patterns[text] # {}
    /\ ~ContainsAny(Lower(text), PejorativeVocabulary \cup VeryNegativePhrases)
    /\ ~ContainsAny(Lower(text), DidntFindPhrases)

C7_OneAdjustment ==
    (AdjusterRan /\ negative_patterns[text] # {}
         /\ (positive_patterns[text] # {} \/ Cardinality(negative_patterns[text]) >= 2)) =>
        LET once == Clamp(negative_adjusted_score(Lower(text), BaseResult.score))
        IN  /\ result.score = once
            /\ result.confidence = Abs(once)
            /\ result.label = get_label(analyzer_type, once)

\* C7 witness: two negative patterns and a positive pattern match one text
C7_Witness ==
    /\ AdjusterRan
    /\ Cardinality(negative_patterns[text]) >= 2
    /\ positive_patterns[text] # {}
    /\ result.adjusted
    /\ BaseResult.score > 0

\* C8: with no negative pattern and a positive pattern, the score is
\* clamp(abs(original) + 0.2) for a negative base score and clamp(original + 0.2)
\* otherwise; label and confidence are re-derived from it.
C8_PositiveAdjustment ==
    (AdjusterRan /\ negative_patterns[text] = {} /\ positive_patterns[text] # {}) =>
        LET original == BaseResult.score
            raised == IF original < 0 THEN Abs(original) + 20 ELSE original + 20
            adjusted == IF raised > 100 THEN 100 ELSE raised
        IN  /\ result.score = adjusted
            /\ result.label = get_label(analyzer_type, adjusted)
            /\ result.confidence = Abs(adjusted)

\* C8 witness: a negative base score is flipped and raised by 0.2
C8_Witness ==
    /\ AdjusterRan
    /\ negative_patterns[text] = {}
    /\ positive_patterns[text] # {}
    /\ BaseResult.score < 0
    /\ result.score = -BaseResult.score + 20

\* C9: with no pattern matching the adjuster returns the base result unchanged
\* and unflagged; adjusted_for_comparison is set exactly when a pattern matched.
C9_NoMatchUnchanged ==
    AdjusterRan =>
        /\ (negative_patterns[text] = {} /\ positive_patterns[text] = {}) =>
               (result = BaseResult /\ ~result.adjusted)
        /\ result.adjusted <=>
               (negative_patterns[text] # {} \/ positive_patterns[text] # {})

\* C9 witness: a text without any pattern keeps a non-zero base score
C9_Witness ==
    /\ AdjusterRan
    /\ negative_patterns[text] = {}
    /\ positive_patterns[text] = {}
    /\ ~IsBlank(text)
    /\ result = BaseResult
    /\ result.score # 0

\* C10: the adjuster applied to an already adjusted result gives the score of
\* one application, and a repeated analyze_text gives the same score.
C10_NoDoublePenalty ==
    pc \in {"readjusted", "repeated"} => result.score = prev_result.score

\* C11: a text that matches the "better than this" pattern (the first negative
\* pattern) is labelled Negative by analyze_text, whatever score the base scorer
\* returned and whichever scorer is active.
C11_BetterThanThisIsNegative ==
    (AdjusterRan /\ 1 \in negative_patterns[text]) => result.label = "Negative"

\* C12: for an empty or whitespace-only text, analyze(text) of each scorer and
\* analyze_text return score 0.0, label Neutral and confidence 0.0.
C12_BlankIsNeutralDefault ==
    (pc \in {"analyzed", "repeated"} /\ IsBlank(text)) =>
        /\ BaseResult.score = 0
        /\ BaseResult.label = "Neutral"
        /\ BaseResult.confidence = 0
        /\ result.score = 0
        /\ result.label = "Neutral"
        /\ result.confidence = 0

\* C13: when the base scorer fails for a message, analyze_text returns the
\* neutral default: score 0.0, label Neutral, confidence 0.0.
C13_FailureIsNeutralDefault ==
    (pc \in {"analyzed", "repeated"} /\ raw.fails) =>
        /\ result.score = 0
        /\ result.label = "Neutral"
        /\ result.confidence = 0

----------------------------------------------------------------------------
(* The empty conversation, checked under SpecConv.                         *)

\* C14: analyze_conversation on an empty list returns overall_sentiment Neutral,
\* total_messages 0 and the reasoning "No messages to analyze".
C14_EmptyConversation ==
    (pc = "conv_done" /\ messages = <<>>) =>
        /\ summary.overall_sentiment = "Neutral"
        /\ summary.total_messages = 0
        /\ summary.reasoning = "No messages to analyze"

\* C14 witness: the empty list was analysed and the summary carries no
\* distribution, scores or labels
C14_Witness ==
    /\ pc = "conv_done"
    /\ messages = <<>>
    /\ ~summary.has_distribution
    /\ summary.scores = <<>>

----------------------------------------------------------------------------
(* Properties of the trend analyzer, checked under SpecTrend.              *)

\* analyze_trend has returned trend_analysis for sentiment_scores
TrendAnalyzed == pc \in {"trend_done", "insights_done"}

C16_TrendDirection ==
    (TrendAnalyzed /\ Len(sentiment_scores) >= 2) =>
        LET n == Len(sentiment_scores)
            mid == n \div 2
            first == [i \in 1..mid |-> sentiment_scores[i]]
            second == [i \in 1..(n - mid) |-> sentiment_scores[mid + i]]
            first_avg == FDiv(FSum(first), FromInt(mid))
            second_avg == FDiv(FSum(second), FromInt(n - mid))
            rises == FGreater(FSub(second_avg, first_avg), F(10))
            falls == FGreater(FSub(first_avg, second_avg), F(10))
        IN  /\ trend_analysis.first_half_avg = first_avg
            /\ trend_analysis.second_half_avg = second_avg
            /\ trend_analysis.trend = "improving" <=> rises
            /\ trend_analysis.trend = "declining" <=> falls
            /\ trend_analysis.trend = "stable" <=> (~rises /\ ~falls)
            /\ trend_analysis.trend = "improving" =>
                   FLess(trend_analysis.first_half_avg, trend_analysis.second_half_avg)
            /\ trend_analysis.trend = "declining" =>
                   FGreater(trend_analysis.first_half_avg, trend_analysis.second_half_avg)

\* C16 witness: three scores, the first half is the first score alone, and the
\* averages differ by less than the threshold: stable
C16_Witness ==
    /\ pc = "trend_done"
    /\ Len(sentiment_scores) = 3
    /\ trend_analysis.first_half_avg = sentiment_scores[1]
    /\ FLess(trend_analysis.first_half_avg, trend_analysis.second_half_avg)
    /\ trend_analysis.trend = "stable"

\* C17: for n >= 2, key_moments has a significant_shift record at message
\* index j exactly for the j >= 2 with |scores[j] - scores[j-1]| > 0.3 (1-based
\* j; direction positive iff the score rose) and an extreme_sentiment record at
\* j exactly for the j >= 2 with |scores[j]| > 0.7; the records are in ascending
\* index order, the shift before the extreme of the same index.
C17_KeyMoments ==
    (TrendAnalyzed /\ Len(sentiment_scores) >= 2) =>
        LET moments == trend_analysis.key_moments
            n == Len(sentiment_scores)
            At_(type, j) == {k \in DOMAIN moments :
                                moments[k].type = type /\ moments[k].message_index = j}
            Shifted(j) == j >= 2 /\ FGreater(FAbs(FSub(sentiment_scores[j],
                                                        sentiment_scores[j - 1])), F(30))
            Extreme(j) == j >= 2 /\ FGreater(FAbs(sentiment_scores[j]), F(70))
        IN  /\ "key_moments" \in trend_analysis.keys
            /\ \A k \in DOMAIN moments :
                /\ moments[k].type \in {"significant_shift", "extreme_sentiment"}
                /\ moments[k].message_index \in 1..n
                /\ moments[k].type = "significant_shift" =>
                       (moments[k].direction = "positive" <=>
                            FGreater(sentiment_scores[moments[k].message_index],
                                     sentiment_scores[moments[k].message_index - 1]))
            /\ \A j \in 1..n :
                /\ Cardinality(At_("significant_shift", j)) = (IF Shifted(j) THEN 1 ELSE 0)
                /\ Cardinality(At_("extreme_sentiment", j)) = (IF Extreme(j) THEN 1 ELSE 0)
            /\ \A k \in 1..(Len(moments) - 1) :
                \/ moments[k].message_index < moments[k + 1].message_index
                \/ /\ moments[k].message_index = moments[k + 1].message_index
                   /\ moments[k].type = "significant_shift"
                   /\ moments[k + 1].type = "extreme_sentiment"

\* C17 witness: an extreme first score is not recorded, and a later message
\* has both a shift and an extreme record
C17_Witness ==
    /\ pc = "trend_done"
    /\ Len(sentiment_scores) >= 2
    /\ FGreater(FAbs(sentiment_scores[1]), F(70))
    /\ \E k \in 1..(Len(trend_analysis.key_moments) - 1) :
        /\ trend_analysis.key_moments[k].type = "significant_shift"
        /\ trend_analysis.key_moments[k + 1].type = "extreme_sentiment"
        /\ trend_analysis.key_moments[k].message_index =
               trend_analysis.key_moments[k + 1].message_index
    /\ \A k \in DOMAIN trend_analysis.key_moments :
        trend_analysis.key_moments[k].message_index >= 2

\* C18: for n >= 2 the progression has n entries, and entry i (1-based) has
\* message_index i, score scores[i], label labels[i] and cumulative_avg the
\* mean of the first i scores.
C18_Progression ==
    (TrendAnalyzed /\ Len(sentiment_scores) >= 2) =>
        /\ Len(trend_analysis.progression) = Len(sentiment_scores)
        /\ \A i \in 1..Len(sentiment_scores) :
            LET entry == trend_analysis.progression[i]
                prefix == [k \in 1..i |-> sentiment_scores[k]]
            IN  /\ entry.message_index = i
                /\ entry.score = sentiment_scores[i]
                /\ entry.label = sentiment_labels[i]
                /\ entry.cumulative_avg = FDiv(FSum(prefix), FromInt(i))

\* C18 witness: three scores whose running averages all differ and differ
\* from the scores after the first
C18_Witness ==
    /\ pc = "trend_done"
    /\ Len(trend_analysis.progression) = 3
    /\ trend_analysis.progression[1].cumulative_avg = sentiment_scores[1]
    /\ trend_analysis.progression[2].cumulative_avg # sentiment_scores[2]
    /\ trend_analysis.progression[3].cumulative_avg
           # trend_analysis.progression[2].cumulative_avg
    /\ trend_analysis.progression[3].label # trend_analysis.progression[1].label

\* the two sequences of the volatility test
HighVolatilityScores == <<F(80), F(-70), F(60), F(-50), F(40)>>
LowVolatilityScores == <<F(10), F(0), F(10), F(0), F(10)>>

\* all the scores are the same
ConstantScores == \A i, j \in DOMAIN sentiment_scores : sentiment_scores[i] = sentiment_scores[j]

\* C19: volatility is never negative, it is 0.0 for a constant sequence and
\* for fewer than 2 scores, and [0.8,-0.7,0.6,-0.5,0.4] has a strictly greater
\* volatility than [0.1,0.0,0.1,0.0,0.1].
C19_Volatility ==
    pc = "volatility_done" =>
        /\ volatility.m >= 0
        /\ Len(sentiment_scores) < 2 => volatility = Zero
        /\ ConstantScores => volatility = Zero
        /\ FGreater(calculate_volatility(HighVolatilityScores),
                    calculate_volatility(LowVolatilityScores))

\* the insights of C20, given whether a distribution sentence is expected
ExpectedInsights(with_distribution) ==
    LET moments == IF "key_moments" \in trend_analysis.keys
                   THEN trend_analysis.key_moments ELSE <<>>
        shifts == Cardinality({k \in DOMAIN moments :
                                  moments[k].type = "significant_shift"})
        vol == IF "volatility" \in trend_analysis.keys
               THEN trend_analysis.volatility ELSE Zero
        positive == summary.label_distribution["Positive"]
        negative == summary.label_distribution["Negative"]
        total == positive + negative + summary.label_distribution["Neutral"]
        trend_sentence ==
            CASE trend_analysis.trend = "improving" ->
                     "Conversation mood improved over time"
              [] trend_analysis.trend = "declining" ->
                     "Conversation mood declined over time"
              [] OTHER -> "Sentiment remained relatively consistent"
        shift_sentence ==
            IF shifts >= 1
            THEN <<"Detected " \o ToString(shifts) \o " significant sentiment shift(s)">>
            ELSE <<>>
        distribution_sentence ==
            IF ~with_distribution THEN <<>>
            ELSE IF positive > negative
            THEN <<"Predominantly positive messages (" \o ToString(positive) \o "/"
                       \o ToString(total) \o ")">>
            ELSE IF negative > positive
            THEN <<"Predominantly negative messages (" \o ToString(negative) \o "/"
                       \o ToString(total) \o ")">>
            ELSE <<"Balanced mix of positive and negative messages">>
        volatility_sentence ==
            IF FGreater(vol, F(30))
            THEN <<"High sentiment volatility - mood changed frequently">>
            ELSE IF FLess(vol, F(10))
            THEN <<"Low sentiment volatility - consistent emotional tone">>
            ELSE <<>>
    IN  <<trend_sentence>> \o shift_sentence \o distribution_sentence
            \o volatility_sentence

\* C20: the insights are, in this order: one sentence for the trend; the count
\* of significant shifts iff there is at least one; one sentence comparing the
\* Positive and Negative counts; and a volatility sentence iff the volatility
\* is above 0.3 (high) or below 0.1 (low).
C20_Insights ==
    pc = "insights_done" => (insights # <<>> /\ insights = ExpectedInsights(TRUE))

\* C20 as amended: the same, the sentence comparing the Positive and Negative
\* counts being there iff the summary has a label_distribution.
C20_InsightsOfDistribution ==
    pc = "insights_done" =>
        (insights # <<>> /\ insights = ExpectedInsights(summary.has_distribution))

\* C20 witness: key moments that are not all shifts, a distribution and a
\* volatility between 0.1 and 0.3: three sentences, none about volatility
C20_Witness ==
    /\ pc = "insights_done"
    /\ summary.has_distribution
    /\ \E k \in DOMAIN trend_analysis.key_moments :
           trend_analysis.key_moments[k].type = "extreme_sentiment"
    /\ \E k \in DOMAIN trend_analysis.key_moments :
           trend_analysis.key_moments[k].type = "significant_shift"
    /\ ~FGreater(trend_analysis.volatility, F(30))
    /\ ~FLess(trend_analysis.volatility, F(10))
    /\ Len(insights) = 3

----------------------------------------------------------------------------
(* Properties of the emotion detector, checked under SpecDialogue.          *)

\* C21: for every text and optional sentiment score, detect_emotions returns a
\* confidence within [0, 1] and an emotions map whose keys are categories with
\* at least one keyword occurring in the text; when the map is empty (as for
\* an empty or whitespace-only text) primary_emotion is neutral and confidence
\* 0.0, and when it is not empty primary_emotion is one of its keys.
C21_EmotionResult ==
    pc = "emotion_done" =>
        LET emotions == emotion_result.emotions
        IN  /\ ~FLess(emotion_result.confidence, Zero)
            /\ ~FGreater(emotion_result.confidence, [m |-> 1, e |-> 0])
            /\ \A emotion \in DOMAIN emotions :
                  \E i \in DOMAIN emotion_keywords :
                      /\ emotion_keywords[i].emotion = emotion
                      /\ \E k \in DOMAIN emotion_keywords[i].keywords :
                            Contains(Lower(text), emotion_keywords[i].keywords[k])
            /\ (IsBlank(text) => DOMAIN emotions = {})
            /\ (DOMAIN emotions = {} =>
                   /\ emotion_result.primary_emotion = "neutral"
                   /\ emotion_result.confidence = Zero)
            /\ (DOMAIN emotions # {} =>
                   emotion_result.primary_emotion \in DOMAIN emotions)

\* a boosted joy score above 1.0 is returned as the confidence 1.0
C21_Witness ==
    /\ pc = "emotion_done"
    /\ emotion_result.primary_emotion = "joy"
    /\ FGreater(emotion_result.emotions["joy"], [m |-> 1, e |-> 0])
    /\ emotion_result.confidence = [m |-> 1, e |-> 0]

\* C22: primary_emotion is a category whose normalized, and where the boost
\* applies boosted, score is maximal; among several categories with the
\* maximal score it is the one earliest in the keyword table.
C22_PrimaryIsFirstMaximum ==
    (pc = "emotion_done" /\ DOMAIN emotion_result.emotions # {}) =>
        LET emotions == emotion_result.emotions
            primary == emotion_result.primary_emotion
            index(emotion) == CHOOSE i \in DOMAIN emotion_keywords :
                                  emotion_keywords[i].emotion = emotion
        IN  /\ emotions = refine_scores(normalized_scores(Lower(text)), sentiment_score)
            /\ \A emotion \in DOMAIN emotions :
                  /\ ~FGreater(emotions[emotion], emotions[primary])
                  /\ emotions[emotion] = emotions[primary] =>
                         index(primary) <= index(emotion)

\* a boosted joy score equal to the score of surprise
C22_Witness ==
    /\ pc = "emotion_done"
    /\ sentiment_score = {40}
    /\ DOMAIN emotion_result.emotions = {"joy", "surprise"}
    /\ emotion_result.emotions["joy"] = emotion_result.emotions["surprise"]
    /\ emotion_result.primary_emotion = "joy"

\* C23: dominant_emotion is the most frequent primary_emotion of the messages;
\* among several equally frequent categories of the keyword table it is the
\* one earliest in the table, whatever the order of the messages (neutral,
\* which the table does not have, is left out of the tie rule); the counts of
\* emotion_distribution sum to the number of messages.
C23_DominantEmotion ==
    pc = "emotions_done" =>
        LET counts == emotion_analysis.emotion_distribution
            order == emotion_analysis.distribution_order
            dominant == emotion_analysis.dominant_emotion
            index(emotion) == CHOOSE i \in DOMAIN emotion_keywords :
                                  emotion_keywords[i].emotion = emotion
        IN  /\ Sum([k \in DOMAIN order |-> counts[order[k]]]) = Len(emotion_data)
            /\ emotion_data # <<>> =>
                  /\ dominant \in DOMAIN counts
                  /\ \A emotion \in DOMAIN counts :
                        /\ counts[emotion] <= counts[dominant]
                        /\ (/\ counts[emotion] = counts[dominant]
                            /\ "neutral" \notin {emotion, dominant}) =>
                               index(dominant) <= index(emotion)

----------------------------------------------------------------------------
(* Conversations of Positive messages, checked under SpecConv.              *)

\* C24: for every non-empty conversation in which every message is labelled
\* Positive by the active scorer, overall_sentiment is Positive and
\* total_messages is the number of messages.
C24_AllPositive ==
    (/\ pc = "conv_done"
     /\ messages # <<>>
     /\ Len(summary.labels) = Len(messages)
     /\ \A i \in DOMAIN summary.labels : summary.labels[i] = "Positive") =>
        /\ summary.overall_sentiment = "Positive"
        /\ summary.total_messages = Len(messages)

\* C24, amended: the same for every conversation of two or more messages that
\* are all labelled Positive, and for every conversation of one message
\* labelled Positive whose score is greater than 0.1.
C24_AllPositiveClear ==
    (/\ pc = "conv_done"
     /\ messages # <<>>
     /\ Len(summary.labels) = Len(messages)
     /\ \A i \in DOMAIN summary.labels : summary.labels[i] = "Positive"
     /\ (Len(messages) >= 2 \/ summary.scores[1] > 10)) =>
        /\ summary.overall_sentiment = "Positive"
        /\ summary.total_messages = Len(messages)

\* three messages labelled Positive by VADER with scores of 0.05
C24_Witness ==
    /\ pc = "conv_done"
    /\ analyzer_type = "vader"
    /\ Len(messages) = 3
    /\ summary.labels = <<"Positive", "Positive", "Positive">>
    /\ summary.scores = <<5, 5, 5>>
    /\ summary.overall_sentiment = "Positive"
    /\ summary.total_messages = 3

----------------------------------------------------------------------------
(* The ranges of a result of analyze_text, checked under Spec.              *)

\* C28: every result of analyze_text, adjusted or not, has its score within
\* [-1.0, 1.0] and its confidence within [0.0, 1.0], the raw score of the base
\* scorer being within [-1, 1]; after an adjustment the confidence is
\* abs(score).
C28_Ranges ==
    pc \in {"analyzed", "repeated"} =>
        /\ result.score \in -100..100
        /\ result.confidence \in 0..100
        /\ result.adjusted => result.confidence = Abs(result.score)

\* a raw score of -1.0 that the penalty of 0.4 would take to -1.4
C28_Witness ==
    /\ pc = "analyzed"
    /\ result.adjusted
    /\ ~raw.fails
    /\ raw.score = -100
    /\ negative_adjusted_score(Lower(text), BaseResult.score) = -140
    /\ result.score = -100
    /\ result.confidence = 100

----------------------------------------------------------------------------
(* Properties of the chatbot and of a conversation, checked under           *)
(* SpecDialogue.                                                            *)

\* C25: after any sequence of generate_response and reset_context calls the
\* context holds at most 10 entries: the most recent min(k, 10) of the k
\* messages handed to generate_response since the last reset, exit commands
\* included, in arrival order; after reset_context it is empty.
C25_ContextWindow ==
    pc = "chatting" =>
        LET k == Len(sent)
            kept == Min(k, ContextLimit)
        IN  /\ Len(conversation_context) <= ContextLimit
            /\ conversation_context = SubSeq(sent, k - kept + 1, k)

\* the eleventh message since the reset has evicted the first, an exit command
C25_Witness ==
    /\ pc = "chatting"
    /\ Len(sent) = ContextLimit + 1
    /\ is_exit_command(sent[1])
    /\ ~is_exit_command(sent[2])
    /\ conversation_context = Tail(sent)

\* C26: for a user message that is no exit command and a sentiment labelled
\* Positive, every response generate_response can return contains one of the
\* words glad, happy, wonderful, great (case-insensitive).
C26_PositiveAcknowledged ==
    (/\ pc = "chatting"
     /\ sent # <<>>
     /\ ~is_exit_command(sent[Len(sent)])
     /\ result.label = "Positive") =>
        ContainsAny(Lower(response), {"glad", "happy", "wonderful", "great"})

\* C27: after any sequence of add_message calls with senders user and bot,
\* get_user_messages and get_bot_messages are the user and the bot messages in
\* the order they were added, get_message_count is the number of calls and
\* equals get_user_message_count plus the number of bot messages; the message
\* list is the list of the added messages also after end_conversation.
C27_MessageLists ==
    pc \in {"idle", "conversing"} =>
        /\ get_user_messages(conversation) =
               SelectSeq(added, LAMBDA msg : msg.sender = "user")
        /\ get_bot_messages(conversation) =
               SelectSeq(added, LAMBDA msg : msg.sender = "bot")
        /\ get_message_count(conversation) = Len(added)
        /\ get_message_count(conversation) =
               get_user_message_count(conversation) + Len(get_bot_messages(conversation))
        /\ conversation.messages = added

\* a bot message, then two different user messages, and the conversation ended
C27_Witness ==
    /\ pc = "conversing"
    /\ Len(added) = 3
    /\ added[1].sender = "bot"
    /\ added[2].sender = "user"
    /\ added[3].sender = "user"
    /\ added[2].text # added[3].text
    /\ conversation.end_time = "now"
    /\ Len(get_user_messages(conversation)) = 2

(* C29: when several /api/chat requests of one session id are processed     *)
(* concurrently, no data is lost: once every request has been answered, the *)
(* single conversation stored under the session id contains the user        *)
(* message and the bot reply of every accepted request of that session.     *)
C29_NoLostMessages ==
    (pc = "serving" /\ \A r \in DOMAIN requests : requests[r].at = "done") =>
        \A session_id \in DOMAIN conversations :
            LET accepted == {r \in DOMAIN requests :
                                /\ requests[r].session_id = session_id
                                /\ requests[r].status = "message"}
            IN  accepted # {} =>
                    /\ conversations[session_id] # 0
                    /\ get_user_message_count(heap[conversations[session_id]])
                           = Cardinality(accepted)
                    /\ Len(get_bot_messages(heap[conversations[session_id]]))
                           = Cardinality(accepted)
                    /\ \A r \in accepted :
                           \E i \in 1..(get_message_count(
                                            heap[conversations[session_id]]) - 1) :
                               LET m == heap[conversations[session_id]].messages
                               IN  /\ m[i].sender = "user"
                                   /\ m[i].text = requests[r].user_message
                                   /\ \E j \in (i + 1)..Len(m) :
                                          /\ m[j].sender = "bot"
                                          /\ m[j].text = requests[r].bot_response

(* C30: under sequential processing, after each request every session's     *)
(* conversation is the list, in request order, of one user message followed *)
(* by one bot message for each non-empty, non-exit request of the session,   *)
(* so it alternates user, bot starting with a user message; an empty        *)
(* message is rejected and an exit command is answered without appending    *)
(* anything, and the exit command sets end_time and leaves the conversation *)
(* stored under its session id.                                             *)
C30_SequentialAlternation ==
    (pc = "serving" /\ ~threaded /\ \A r \in DOMAIN requests : requests[r].at = "done") =>
        /\ \A r \in DOMAIN requests :
               requests[r].status =
                   IF Strip(requests[r].message) = "" THEN "rejected"
                   ELSE IF is_exit_command(Strip(requests[r].message)) THEN "ended"
                   ELSE "message"
        /\ \A session_id \in DOMAIN conversations :
               LET expected[n \in 0..Len(requests)] ==
                       IF n = 0 THEN <<>>
                       ELSE IF /\ requests[n].session_id = session_id
                               /\ requests[n].status = "message"
                            THEN expected[n - 1] \o
                                     << <<requests[n].user_message, "user">>,
                                        <<requests[n].bot_response, "bot">> >>
                            ELSE expected[n - 1]
                   touched == {r \in DOMAIN requests :
                                  /\ requests[r].session_id = session_id
                                  /\ requests[r].status # "rejected"}
                   exits == {r \in touched : requests[r].status = "ended"}
               IN  IF touched = {}
                   THEN conversations[session_id] = 0
                   ELSE /\ conversations[session_id] # 0
                        /\ LET stored == heap[conversations[session_id]]
                           IN  /\ [i \in 1..Len(stored.messages) |->
                                      <<stored.messages[i].text,
                                        stored.messages[i].sender>>]
                                      = expected[Len(requests)]
                               /\ \A i \in 1..Len(stored.messages) :
                                      stored.messages[i].sender =
                                          IF i % 2 = 1 THEN "user" ELSE "bot"
                               /\ (exits # {}) <=> (stored.end_time # "None")

C30_Witness ==
    /\ pc = "serving"
    /\ ~threaded
    /\ Len(requests) = 2
    /\ requests[1].session_id = requests[2].session_id
    /\ requests[1].status = "message"
    /\ requests[2].status = "ended"
    /\ conversations[requests[2].session_id] # 0
    /\ get_message_count(heap[conversations[requests[2].session_id]]) = 2
    /\ heap[conversations[requests[2].session_id]].end_time # "None"

====
